---- MODULE Spec2Model ----
(***************************************************************************)
(* Model of github.com/raywall/json-schema-validation (package valid).     *)
(*                                                                         *)
(* A JSON text ([]byte or string) is a sequence of lexemes: each element   *)
(* is one lexical unit of the text (a punctuation byte, a run of blanks, a *)
(* string literal, a number, a literal name, or a run of bytes that is no  *)
(* JSON lexeme).  len(b) = 0 is the empty sequence.  A Go string that the  *)
(* code splits on "." is the sequence of its dot-free segments, so the     *)
(* empty string is <<"">> and "(root).email" is <<"(root)", "email">>.     *)
(* A message built with fmt.Sprintf is the sequence of its parts.          *)
(***************************************************************************)
EXTENDS Integers, Sequences, FiniteSets, TLC

VARIABLES validator, call, request, response, earlier, callers, registry

vars == <<validator, call, request, response, earlier, callers, registry>>

\* what a single caller of one Validator leaves alone
others == <<earlier, callers, registry>>

(***************************************************************************)
(* Bounds of the model.                                                    *)
(***************************************************************************)
MaxTextLen == 2        \* every text of at most this many lexemes is an input
MaxViolations == 2     \* the engine reports at most this many violations
MaxFailAt == 1         \* a body read may fail after at most this many lexemes
MaxInstances == 3      \* at most this many Validators are allocated for a registry

(***************************************************************************)
(* Lexemes.                                                                *)
(***************************************************************************)
Tok(k, s) == [k |-> k, s |-> s]
WS == Tok("ws", " ")
LBrace == Tok("p", "{")
RBrace == Tok("p", "}")
LBrack == Tok("p", "[")
RBrack == Tok("p", "]")
Colon == Tok("p", ":")
Comma == Tok("p", ",")
Str(s) == Tok("str", s)
Num(s) == Tok("num", s)
Lit(s) == Tok("lit", s)
Bad(s) == Tok("bad", s)

(***************************************************************************)
(* Decoded JSON values (what json.Unmarshal stores in an interface{}).     *)
(***************************************************************************)
JNull == [t |-> "null"]
JStr(s) == [t |-> "str", s |-> s]
JNum(s) == [t |-> "num", s |-> s]
JBool(s) == [t |-> "bool", s |-> s]
JArr(a) == [t |-> "arr", a |-> a]
JObj(m) == [t |-> "obj", m |-> m]
EmptyMap == << >>

IsObj(v) == v.t = "obj"
HasKey(v, k) == IsObj(v) /\ k \in DOMAIN v.m

\* x[k].(map[string]interface{}): ok iff the key is present and holds an object
ObjAt(v, k) == IF HasKey(v, k) /\ IsObj(v.m[k]) THEN v.m[k] ELSE JNull
HasObjAt(v, k) == HasKey(v, k) /\ IsObj(v.m[k])

(***************************************************************************)
(* encoding/json: the decoder, as a recursive-descent parser of the text.  *)
(* A parse returns [ok, v, next]; on failure next is the offending         *)
(* position (Len+1 when the text ended too early).                         *)
(***************************************************************************)
POk(v, n) == [ok |-> TRUE, v |-> v, next |-> n]
PFail(n) == [ok |-> FALSE, v |-> JNull, next |-> n]

\* LET x == value IN F(x), with value computed once, before F is applied
Bind(value, F(_)) == CHOOSE out \in {F(x) : x \in {value}} : TRUE

SkipWS(s, i) ==
    CHOOSE j \in i..(Len(s) + 1) :
        /\ \A m \in i..(j - 1) : s[m].k = "ws"
        /\ (j = Len(s) + 1 \/ s[j].k # "ws")

RECURSIVE ParseValue(_, _)
RECURSIVE ParseMembers(_, _, _)
RECURSIVE ParseElements(_, _, _)

\* the members of an object from position i0 on: "key" : value , ... }
ParseMembers(s, i0, acc) ==
    Bind(SkipWS(s, i0), LAMBDA i :
      IF i > Len(s) \/ s[i].k # "str" THEN PFail(i)
      ELSE Bind(SkipWS(s, i + 1), LAMBDA c :
        IF c > Len(s) \/ s[c] # Colon THEN PFail(c)
        ELSE Bind(ParseValue(s, c + 1), LAMBDA r :
          IF ~r.ok THEN r
          ELSE Bind(SkipWS(s, r.next), LAMBDA e :
            \* a repeated key keeps its last value
            Bind((s[i].s :> r.v) @@ acc, LAMBDA acc2 :
              IF e > Len(s) THEN PFail(e)
              ELSE IF s[e] = Comma THEN ParseMembers(s, e + 1, acc2)
              ELSE IF s[e] = RBrace THEN POk(JObj(acc2), e + 1)
              ELSE PFail(e))))))

\* the elements of an array from position i0 on: value , ... ]
ParseElements(s, i0, acc) ==
    Bind(ParseValue(s, i0), LAMBDA r :
      IF ~r.ok THEN r
      ELSE Bind(SkipWS(s, r.next), LAMBDA e :
        Bind(Append(acc, r.v), LAMBDA acc2 :
          IF e > Len(s) THEN PFail(e)
          ELSE IF s[e] = Comma THEN ParseElements(s, e + 1, acc2)
          ELSE IF s[e] = RBrack THEN POk(JArr(acc2), e + 1)
          ELSE PFail(e))))

ParseValue(s, i0) ==
    Bind(SkipWS(s, i0), LAMBDA i :
      IF i > Len(s) THEN PFail(i)
      ELSE IF s[i].k = "str" THEN POk(JStr(s[i].s), i + 1)
      ELSE IF s[i].k = "num" THEN POk(JNum(s[i].s), i + 1)
      ELSE IF s[i].k = "lit" THEN
          (IF s[i].s = "null" THEN POk(JNull, i + 1) ELSE POk(JBool(s[i].s), i + 1))
      ELSE IF s[i] = LBrace THEN
          Bind(SkipWS(s, i + 1), LAMBDA j :
            IF j > Len(s) THEN PFail(j)
            ELSE IF s[j] = RBrace THEN POk(JObj(EmptyMap), j + 1)
            ELSE ParseMembers(s, j, EmptyMap))
      ELSE IF s[i] = LBrack THEN
          Bind(SkipWS(s, i + 1), LAMBDA j :
            IF j > Len(s) THEN PFail(j)
            ELSE IF s[j] = RBrack THEN POk(JArr(<< >>), j + 1)
            ELSE ParseElements(s, j, << >>))
      ELSE PFail(i))

\* the whole text is one JSON value, blanks allowed around it
ParseText(text) ==
    Bind(text, LAMBDA s :
      Bind(ParseValue(s, 1), LAMBDA r :
        IF ~r.ok THEN r
        ELSE Bind(SkipWS(s, r.next), LAMBDA e :
          IF e > Len(s) THEN r ELSE PFail(e))))

(***************************************************************************)
(* Inputs.  ShortTexts are all texts of at most MaxTextLen lexemes over a  *)
(* small alphabet; the named texts are the schemas and documents of the    *)
(* README and of the tests.                                                *)
(***************************************************************************)
ShortAlphabet == {WS, LBrace, RBrace, Str("a")}

ShortTexts == UNION {[1..n -> ShortAlphabet] : n \in 0..MaxTextLen}

\* {"type": "object"   (valid_test.go "invalid JSON")
SchemaTruncated == <<LBrace, Str("type"), Colon, WS, Str("object")>>

\* {"type":"object","required":["name"]}
SchemaPlain ==
    <<LBrace, Str("type"), Colon, Str("object"), Comma,
      Str("required"), Colon, LBrack, Str("name"), RBrack, RBrace>>

\* README "Mensagens de Erro Personalizadas":
\* {"type":"object","properties":{"email":{"type":"string","format":"email",
\*   "errorMessage":{"format":"bad email"}}}}
SchemaObjectEmail ==
    <<LBrace, Str("type"), Colon, Str("object"), Comma,
      Str("properties"), Colon, LBrace,
        Str("email"), Colon, LBrace,
          Str("type"), Colon, Str("string"), Comma,
          Str("format"), Colon, Str("email"), Comma,
          Str("errorMessage"), Colon, LBrace,
            Str("format"), Colon, Str("bad email"), RBrace,
        RBrace,
      RBrace, RBrace>>

\* {"type":"array","items":{"properties":{"email":{"errorMessage":
\*   {"format":"bad email","_":"bad field","n":1}}},
\*   "errorMessage":{"required":{"name":"name is required","email":"email is required"}}}}
SchemaArrayItems ==
    <<LBrace, Str("type"), Colon, Str("array"), Comma,
      Str("items"), Colon, LBrace,
        Str("properties"), Colon, LBrace,
          Str("email"), Colon, LBrace,
            Str("errorMessage"), Colon, LBrace,
              Str("format"), Colon, Str("bad email"), Comma,
              Str("_"), Colon, Str("bad field"), Comma,
              Str("n"), Colon, Num("1"), RBrace,
          RBrace,
        RBrace, Comma,
        Str("errorMessage"), Colon, LBrace,
          Str("required"), Colon, LBrace,
            Str("name"), Colon, Str("name is required"), Comma,
            Str("email"), Colon, Str("email is required"), RBrace,
        RBrace,
      RBrace, RBrace>>

\* {"type":"array","items":{"properties":{
\*    "address":{"errorMessage":{"pattern":"bad address"}},
\*    "zipCode":{"errorMessage":{"pattern":"bad zip"}},
\*    "address.zipCode":{"errorMessage":{"pattern":"bad path"}},
\*    "age":{"errorMessage":{"minimum":18}},
\*    "nick":{"errorMessage":{"":"bad nick"}},
\*    "plain":{"type":"string"}}},
\*  "errorMessage":{"required":{"plain":"plain is required"}}}
SchemaAnnotations ==
    <<LBrace, Str("type"), Colon, Str("array"), Comma,
      Str("items"), Colon, LBrace,
        Str("properties"), Colon, LBrace,
          Str("address"), Colon, LBrace,
            Str("errorMessage"), Colon, LBrace,
              Str("pattern"), Colon, Str("bad address"), RBrace, RBrace, Comma,
          Str("zipCode"), Colon, LBrace,
            Str("errorMessage"), Colon, LBrace,
              Str("pattern"), Colon, Str("bad zip"), RBrace, RBrace, Comma,
          Str("address.zipCode"), Colon, LBrace,
            Str("errorMessage"), Colon, LBrace,
              Str("pattern"), Colon, Str("bad path"), RBrace, RBrace, Comma,
          Str("age"), Colon, LBrace,
            Str("errorMessage"), Colon, LBrace,
              Str("minimum"), Colon, Num("18"), RBrace, RBrace, Comma,
          Str("nick"), Colon, LBrace,
            Str("errorMessage"), Colon, LBrace,
              Str(""), Colon, Str("bad nick"), RBrace, RBrace, Comma,
          Str("plain"), Colon, LBrace,
            Str("type"), Colon, Str("string"), RBrace,
        RBrace,
      RBrace, Comma,
      Str("errorMessage"), Colon, LBrace,
        Str("required"), Colon, LBrace,
          Str("plain"), Colon, Str("plain is required"), RBrace,
      RBrace, RBrace>>

SchemaNull == <<Lit("null")>>
SchemaArray == <<LBrack, RBrack>>

\* the last two are the JSON texts 1 and true
NamedSchemas ==
    {SchemaTruncated, SchemaPlain, SchemaObjectEmail, SchemaArrayItems,
     SchemaAnnotations, SchemaNull, SchemaArray, <<Num("1")>>, <<Lit("true")>>}

SchemaTexts == ShortTexts \cup NamedSchemas

\* not json
DocNotJson == <<Bad("not"), WS, Bad("json")>>
\* {"name": "test"     (TestValidationErrorStructure)
DocTruncated == <<LBrace, Str("name"), Colon, WS, Str("test")>>
\* {"name":"T"}
DocShortName == <<LBrace, Str("name"), Colon, Str("T"), RBrace>>
\* {"name":"Ana","email":"x"}
DocBadEmail ==
    <<LBrace, Str("name"), Colon, Str("Ana"), Comma,
      Str("email"), Colon, Str("x"), RBrace>>
\* [{"email":"x"}]
DocArray == <<LBrack, LBrace, Str("email"), Colon, Str("x"), RBrace, RBrack>>

NamedDocs == {DocNotJson, DocTruncated, DocShortName, DocBadEmail, DocArray}

DocTexts == ShortTexts \cup NamedDocs

(***************************************************************************)
(* encoding/json: the encoder.  A Go value is a decoded JSON value or a    *)
(* value with no JSON encoding (a channel), possibly inside a map.         *)
(***************************************************************************)
GoChan == [t |-> "chan"]

\* the order in which the encoder writes the keys of a map
KeyOrder == <<"ch", "email", "name">>

KeyIndex(k) == CHOOSE i \in 1..Len(KeyOrder) : KeyOrder[i] = k

\* the keys of m, in the order of KeyOrder
SortedKeys(m) ==
    LET ks == DOMAIN m
        Rank(k) == Cardinality({y \in ks : KeyIndex(y) < KeyIndex(k)}) + 1
    IN  [i \in 1..Cardinality(ks) |-> CHOOSE k \in ks : Rank(k) = i]

RECURSIVE Encode(_)
RECURSIVE EncodeMembers(_, _, _)
RECURSIVE EncodeElements(_, _)

\* the elements a[i..], comma separated
EncodeElements(a, i) ==
    IF i > Len(a) THEN [ok |-> TRUE, text |-> << >>]
    ELSE Bind(Encode(a[i]), LAMBDA e :
           Bind(EncodeElements(a, i + 1), LAMBDA rest :
             IF ~e.ok \/ ~rest.ok THEN [ok |-> FALSE, text |-> << >>]
             ELSE [ok |-> TRUE,
                   text |-> (IF i > 1 THEN <<Comma>> ELSE << >>)
                            \o e.text \o rest.text]))

\* the members of m named by keys[i..], comma separated
EncodeMembers(m, keys, i) ==
    IF i > Len(keys) THEN [ok |-> TRUE, text |-> << >>]
    ELSE Bind(Encode(m[keys[i]]), LAMBDA e :
           Bind(EncodeMembers(m, keys, i + 1), LAMBDA rest :
             IF ~e.ok \/ ~rest.ok THEN [ok |-> FALSE, text |-> << >>]
             ELSE [ok |-> TRUE,
                   text |-> (IF i > 1 THEN <<Comma>> ELSE << >>)
                            \o <<Str(keys[i]), Colon>> \o e.text \o rest.text]))

Encode(x) ==
    CASE x.t = "null" -> [ok |-> TRUE, text |-> <<Lit("null")>>]
      [] x.t = "str" -> [ok |-> TRUE, text |-> <<Str(x.s)>>]
      [] x.t = "num" -> [ok |-> TRUE, text |-> <<Num(x.s)>>]
      [] x.t = "bool" -> [ok |-> TRUE, text |-> <<Lit(x.s)>>]
      [] x.t = "obj" ->
            Bind(EncodeMembers(x.m, SortedKeys(x.m), 1), LAMBDA r :
              IF r.ok THEN [ok |-> TRUE, text |-> <<LBrace>> \o r.text \o <<RBrace>>]
              ELSE r)
      [] x.t = "arr" ->
            Bind(EncodeElements(x.a, 1), LAMBDA r :
              IF r.ok THEN [ok |-> TRUE, text |-> <<LBrack>> \o r.text \o <<RBrack>>]
              ELSE r)
      [] OTHER -> [ok |-> FALSE, text |-> << >>]

\* json.Marshal(data)
Marshal(data) == Encode(data)

GoValues ==
    {JNull, GoChan, JStr("a"),
     JObj(("name" :> JStr("T"))),
     JObj(("name" :> JStr("Ana")) @@ ("email" :> JStr("x"))),
     JObj(("ch" :> GoChan))}

\* err.Error() of the decoder's syntax error
SyntaxErrorText(s, p) ==
    IF p.next > Len(s) THEN "unexpected end of JSON input"
    ELSE "invalid character"

ErrNil == "<nil>"

\* json.Unmarshal(data, &x) with x an interface{}
UnmarshalAny(s) ==
    Bind(ParseText(s), LAMBDA p :
      IF p.ok THEN [err |-> ErrNil, v |-> p.v]
      ELSE [err |-> SyntaxErrorText(s, p), v |-> JNull])

\* json.Unmarshal(data, &x) with x a map[string]interface{}: an object fills
\* the map, null leaves it nil, any other value is a type error
UnmarshalMap(s) ==
    Bind(ParseText(s), LAMBDA p :
      IF ~p.ok THEN [err |-> SyntaxErrorText(s, p), v |-> JNull]
      ELSE IF p.v.t \in {"obj", "null"} THEN [err |-> ErrNil, v |-> p.v]
      ELSE [err |-> "json: cannot unmarshal into Go value of type map[string]interface {}",
            v |-> JNull])

\* strings.TrimSpace(s) == ""
IsBlank(s) == \A i \in 1..Len(s) : s[i].k = "ws"

(***************************************************************************)
(* An error value is the sequence of the parts of its message; nil is the  *)
(* empty sequence.  The messages are the source's, in ASCII.               *)
(***************************************************************************)
NilError == << >>
Errorf(prefix, detail) == <<prefix, detail>>

(***************************************************************************)
(* Validator and its construction.                                         *)
(***************************************************************************)
NilValidator == [nil |-> TRUE, schema |-> << >>, customErrors |-> EmptyMap]

\* the messages of one errorMessage object: the string-valued entries
StringEntries(errMsg) ==
    LET keys == {k \in DOMAIN errMsg.m : errMsg.m[k].t = "str"}
    IN  [k \in keys |-> errMsg.m[k].s]

\* extractErrorMessages leaving out the properties without a string message
extractErrorMessages_SkipEmpty(schema) ==
    IF ~HasObjAt(schema, "items") THEN EmptyMap
    ELSE
      LET items == ObjAt(schema, "items")
          props == ObjAt(items, "properties")
          annotated ==
              IF HasObjAt(items, "properties")
              THEN {f \in DOMAIN props.m :
                      /\ HasObjAt(props.m[f], "errorMessage")
                      /\ StringEntries(ObjAt(props.m[f], "errorMessage")) # EmptyMap}
              ELSE {}
          perField ==
              [f \in annotated |-> StringEntries(ObjAt(props.m[f], "errorMessage"))]
          requiredMsgs == ObjAt(ObjAt(items, "errorMessage"), "required")
          named ==
              IF HasObjAt(items, "errorMessage")
                 /\ HasObjAt(ObjAt(items, "errorMessage"), "required")
              THEN {f \in DOMAIN requiredMsgs.m : requiredMsgs.m[f].t = "str"}
              ELSE {}
      IN  [f \in annotated \cup named |->
              IF f \in named
              THEN ("required" :> requiredMsgs.m[f].s)
                   @@ (IF f \in annotated THEN perField[f] ELSE EmptyMap)
              ELSE perField[f]]

extractErrorMessages(schema) ==
    IF ~HasObjAt(schema, "items") THEN EmptyMap
    ELSE
      LET items == ObjAt(schema, "items")
          props == ObjAt(items, "properties")
          annotated ==
              IF HasObjAt(items, "properties")
              THEN {f \in DOMAIN props.m : HasObjAt(props.m[f], "errorMessage")}
              ELSE {}
          perField ==
              [f \in annotated |-> StringEntries(ObjAt(props.m[f], "errorMessage"))]
          requiredMsgs == ObjAt(ObjAt(items, "errorMessage"), "required")
          named ==
              IF HasObjAt(items, "errorMessage")
                 /\ HasObjAt(ObjAt(items, "errorMessage"), "required")
              THEN {f \in DOMAIN requiredMsgs.m : requiredMsgs.m[f].t = "str"}
              ELSE {}
      IN  [f \in annotated \cup named |->
              IF f \in named
              THEN ("required" :> requiredMsgs.m[f].s)
                   @@ (IF f \in annotated THEN perField[f] ELSE EmptyMap)
              ELSE perField[f]]

\* NewFromBytes decoding the schema into an interface{} instead of a map
NewFromBytes_AnyValue(schemaBytes) ==
    IF Len(schemaBytes) = 0
    THEN [v |-> NilValidator,
          err |-> Errorf("schema bytes nao podem estar vazios", "")]
    ELSE Bind(UnmarshalAny(schemaBytes), LAMBDA u :
           IF u.err # ErrNil
           THEN [v |-> NilValidator, err |-> Errorf("schema JSON invalido: ", u.err)]
           ELSE [v |-> [nil |-> FALSE, schema |-> schemaBytes,
                        customErrors |-> extractErrorMessages(u.v)],
                 err |-> NilError])

NewFromBytes(schemaBytes) ==
    IF Len(schemaBytes) = 0
    THEN [v |-> NilValidator,
          err |-> Errorf("schema bytes nao podem estar vazios", "")]
    ELSE Bind(UnmarshalMap(schemaBytes), LAMBDA u :
           IF u.err # ErrNil
           THEN [v |-> NilValidator, err |-> Errorf("schema JSON invalido: ", u.err)]
           ELSE [v |-> [nil |-> FALSE, schema |-> schemaBytes,
                        customErrors |-> extractErrorMessages(u.v)],
                 err |-> NilError])

NewFromString(schemaJSON) ==
    IF IsBlank(schemaJSON)
    THEN [v |-> NilValidator, err |-> Errorf("schema nao pode estar vazio", "")]
    ELSE NewFromBytes(schemaJSON)

\* the file system seen by os.Open and io.ReadAll
SchemaFiles == {"user-schema.json", "items-schema.json", "empty.json",
                "list.json", "arquivo-inexistente.json", "unreadable.json"}

FileOutcome(path) ==
    CASE path = "user-schema.json" -> [open |-> TRUE, read |-> TRUE, bytes |-> SchemaPlain]
      [] path = "items-schema.json" -> [open |-> TRUE, read |-> TRUE, bytes |-> SchemaArrayItems]
      [] path = "empty.json" -> [open |-> TRUE, read |-> TRUE, bytes |-> << >>]
      [] path = "list.json" -> [open |-> TRUE, read |-> TRUE, bytes |-> SchemaArray]
      [] path = "unreadable.json" -> [open |-> TRUE, read |-> FALSE, bytes |-> << >>]
      [] OTHER -> [open |-> FALSE, read |-> FALSE, bytes |-> << >>]

New(schemaPath) ==
    LET f == FileOutcome(schemaPath) IN
    IF ~f.open
    THEN [v |-> NilValidator, err |-> Errorf("erro ao abrir arquivo de schema", schemaPath)]
    ELSE IF ~f.read
    THEN [v |-> NilValidator, err |-> Errorf("erro ao ler arquivo de schema", schemaPath)]
    ELSE NewFromBytes(f.bytes)

(***************************************************************************)
(* The schema evaluation engine (gojsonschema.Validate) is outside the     *)
(* package: for a schema and a document it answers with an error or with   *)
(* an ordered list of violations, any of the ones below.                   *)
(***************************************************************************)
NilValue == "<nil>"

RawViolation(field, type, description, value, context) ==
    [field |-> field, type |-> type, description |-> description,
     value |-> value, context |-> context]

RawViolations ==
    {RawViolation(<<"email">>, "format", "Does not match format 'email'",
                  "x", "(root).email"),
     RawViolation(<<"(root)">>, "required", "name is required",
                  NilValue, "(root)"),
     RawViolation(<<"(root)", "name">>, "string_gte",
                  "String length must be greater than or equal to 2",
                  "T", "(root).name"),
     RawViolation(<<"address", "zipCode">>, "pattern",
                  "Does not match pattern", "123", "(root).address.zipCode"),
     RawViolation(<<"(root)", "email">>, "invalid_type",
                  "Invalid type. Expected: string, given: integer",
                  "1", "(root).email"),
     RawViolation(<<"0", "email">>, "format", "Does not match format 'email'",
                  "x", "(root).0.email")}

ViolationSeqs == UNION {[1..n -> RawViolations] : n \in 0..MaxViolations}

EngineOutcomes ==
    {[err |-> TRUE, errors |-> << >>]}
    \cup {[err |-> FALSE, errors |-> e] : e \in ViolationSeqs}

\* the engine was not asked
NoEngine == [err |-> FALSE, errors |-> << >>]

(***************************************************************************)
(* ValidationError, ValidationResult and the validation entry points.     *)
(***************************************************************************)
ValidationError(field, message, value, constraint, context) ==
    [Field |-> field, Message |-> message, Value |-> value,
     Constraint |-> constraint, Context |-> context]

NilResult == [nil |-> TRUE, Valid |-> FALSE, Errors |-> << >>]
ValidationResult(valid, errors) == [nil |-> FALSE, Valid |-> valid, Errors |-> errors]

\* strings.TrimPrefix(field, "(root).")
TrimRootPrefix(field) ==
    IF Len(field) >= 2 /\ field[1] = "(root)" THEN Tail(field) ELSE field

\* getCustomErrorMessage looking for the generic message first
getCustomErrorMessage_WildcardFirst(v, field, err) ==
    LET baseField == field[1] IN
    IF baseField \in DOMAIN v.customErrors
    THEN LET fieldMessages == v.customErrors[baseField] IN
         IF "_" \in DOMAIN fieldMessages THEN <<fieldMessages["_"]>>
         ELSE IF err.type \in DOMAIN fieldMessages THEN <<fieldMessages[err.type]>>
         ELSE <<err.description>>
    ELSE <<err.description>>

\* getCustomErrorMessage looking the field up under the last segment of its path
getCustomErrorMessage_LastSegment(v, field, err) ==
    LET baseField == field[Len(field)] IN
    IF baseField \in DOMAIN v.customErrors
    THEN LET fieldMessages == v.customErrors[baseField] IN
         IF err.type \in DOMAIN fieldMessages THEN <<fieldMessages[err.type]>>
         ELSE IF "_" \in DOMAIN fieldMessages THEN <<fieldMessages["_"]>>
         ELSE <<err.description>>
    ELSE <<err.description>>

getCustomErrorMessage(v, field, err) ==
    LET baseField == field[1] IN
    IF baseField \in DOMAIN v.customErrors
    THEN LET fieldMessages == v.customErrors[baseField] IN
         IF err.type \in DOMAIN fieldMessages THEN <<fieldMessages[err.type]>>
         ELSE IF "_" \in DOMAIN fieldMessages THEN <<fieldMessages["_"]>>
         ELSE <<err.description>>
    ELSE <<err.description>>

\* buildValidationError keeping the engine's name of the root
buildValidationError_KeepRoot(v, err) ==
    LET field == TrimRootPrefix(err.field)
    IN  ValidationError(field, getCustomErrorMessage(v, field, err),
                        err.value, err.type, err.context)

buildValidationError(v, err) ==
    LET trimmed == TrimRootPrefix(err.field)
        field == IF trimmed = <<"(root)">> THEN <<"">> ELSE trimmed
    IN  ValidationError(field, getCustomErrorMessage(v, field, err),
                        err.value, err.type, err.context)

\* buildValidationResult prepending each diagnostic instead of appending it
buildValidationResult_Prepend(v, errors) ==
    IF Len(errors) = 0
    THEN ValidationResult(TRUE, << >>)
    ELSE ValidationResult(FALSE,
            [i \in 1..Len(errors) |->
                buildValidationError(v, errors[Len(errors) + 1 - i])])

\* buildValidationResult leaving out the loop over the violations
buildValidationResult_DropErrors(v, errors) ==
    IF Len(errors) = 0
    THEN ValidationResult(TRUE, << >>)
    ELSE ValidationResult(FALSE, << >>)

\* buildValidationResult with the sense of result.Valid() inverted
buildValidationResult_InvertedValid(v, errors) ==
    ValidationResult(Len(errors) # 0,
        [i \in 1..Len(errors) |-> buildValidationError(v, errors[i])])

\* result.Valid() is len(result.Errors()) == 0
buildValidationResult(v, errors) ==
    IF Len(errors) = 0
    THEN ValidationResult(TRUE, << >>)
    ELSE ValidationResult(FALSE,
            [i \in 1..Len(errors) |-> buildValidationError(v, errors[i])])

Outcome(result, err, engine) == [result |-> result, err |-> err, engine |-> engine]

\* ValidateBytes without its guard on empty input
ValidateBytes_NoEmptyCheck(v, jsonData, eng) ==
    Bind(UnmarshalAny(jsonData), LAMBDA u :
      IF u.err # ErrNil
      THEN Outcome(ValidationResult(FALSE,
                     <<ValidationError(<<"root">>, <<"JSON invalido: ", u.err>>,
                                       NilValue, "format", "")>>),
                   NilError, 0)
      ELSE IF eng.err
      THEN Outcome(NilResult, Errorf("erro durante validacao do schema: ", "engine"), 1)
      ELSE Outcome(buildValidationResult(v, eng.errors), NilError, 1))

\* ValidateBytes handing an unparseable document to the engine all the same
ValidateBytes_NoParseCheck(v, jsonData, eng) ==
    IF Len(jsonData) = 0
    THEN Outcome(NilResult, Errorf("dados JSON nao podem estar vazios", ""), 0)
    ELSE IF eng.err
    THEN Outcome(NilResult, Errorf("erro durante validacao do schema: ", "engine"), 1)
    ELSE Outcome(buildValidationResult(v, eng.errors), NilError, 1)

\* ValidateBytes naming the root of an unparseable document ""
ValidateBytes_EmptyRootField(v, jsonData, eng) ==
    IF Len(jsonData) = 0
    THEN Outcome(NilResult, Errorf("dados JSON nao podem estar vazios", ""), 0)
    ELSE Bind(UnmarshalAny(jsonData), LAMBDA u :
           IF u.err # ErrNil
           THEN Outcome(ValidationResult(FALSE,
                          <<ValidationError(<<"">>, <<"JSON invalido: ", u.err>>,
                                            NilValue, "format", "")>>),
                        NilError, 0)
           ELSE IF eng.err
           THEN Outcome(NilResult,
                        Errorf("erro durante validacao do schema: ", "engine"), 1)
           ELSE Outcome(buildValidationResult(v, eng.errors), NilError, 1))

\* ValidateBytes returning an empty result beside the engine's error
ValidateBytes_ResultWithError(v, jsonData, eng) ==
    IF Len(jsonData) = 0
    THEN Outcome(NilResult, Errorf("dados JSON nao podem estar vazios", ""), 0)
    ELSE Bind(UnmarshalAny(jsonData), LAMBDA u :
           IF u.err # ErrNil
           THEN Outcome(ValidationResult(FALSE,
                          <<ValidationError(<<"root">>, <<"JSON invalido: ", u.err>>,
                                            NilValue, "format", "")>>),
                        NilError, 0)
           ELSE IF eng.err
           THEN Outcome(ValidationResult(FALSE, << >>),
                        Errorf("erro durante validacao do schema: ", "engine"), 1)
           ELSE Outcome(buildValidationResult(v, eng.errors), NilError, 1))

ValidateBytes(v, jsonData, eng) ==
    IF Len(jsonData) = 0
    THEN Outcome(NilResult, Errorf("dados JSON nao podem estar vazios", ""), 0)
    ELSE Bind(UnmarshalAny(jsonData), LAMBDA u :
           IF u.err # ErrNil
           THEN Outcome(ValidationResult(FALSE,
                          <<ValidationError(<<"root">>, <<"JSON invalido: ", u.err>>,
                                            NilValue, "format", "")>>),
                        NilError, 0)
           ELSE IF eng.err
           THEN Outcome(NilResult,
                        Errorf("erro durante validacao do schema: ", "engine"), 1)
           ELSE Outcome(buildValidationResult(v, eng.errors), NilError, 1))

\* ValidateString trimming the text before it validates, as NewFromString does
ValidateString_TrimSpace(v, jsonString, eng) ==
    IF IsBlank(jsonString) THEN ValidateBytes(v, << >>, eng)
    ELSE ValidateBytes(v, jsonString, eng)

ValidateString(v, jsonString, eng) == ValidateBytes(v, jsonString, eng)

ValidateInterface(v, data, eng) ==
    Bind(Marshal(data), LAMBDA m :
      IF ~m.ok
      THEN Outcome(NilResult,
                   Errorf("erro ao serializar dados para JSON: ", "unsupported type"), 0)
      ELSE ValidateBytes(v, m.text, eng))

(***************************************************************************)
(* net/http: a request body is a stream over its bytes; a read may fail    *)
(* (a broken connection) once failAt lexemes were delivered.  orig tells   *)
(* the caller's body object from one the package attached.                 *)
(***************************************************************************)
NilBody == [nil |-> TRUE, data |-> << >>, pos |-> 0, fails |-> FALSE,
            failAt |-> 0, orig |-> TRUE]
Body(data, fails, failAt) ==
    [nil |-> FALSE, data |-> data, pos |-> 0, fails |-> fails,
     failAt |-> failAt, orig |-> TRUE]

\* io.NopCloser(strings.NewReader(string(body)))
NewReaderBody(data) ==
    [nil |-> FALSE, data |-> data, pos |-> 0, fails |-> FALSE,
     failAt |-> 0, orig |-> FALSE]

Max(a, b) == IF a >= b THEN a ELSE b
Min(a, b) == IF a <= b THEN a ELSE b

\* io.ReadAll(r.Body): what was read, the error, and the stream afterwards
ReadAll(b) ==
    IF b.fails
    THEN LET stop == Max(b.pos, b.failAt) IN
         [data |-> SubSeq(b.data, b.pos + 1, stop), err |-> "unexpected EOF",
          body |-> [b EXCEPT !.pos = stop]]
    ELSE [data |-> SubSeq(b.data, b.pos + 1, Len(b.data)), err |-> ErrNil,
          body |-> [b EXCEPT !.pos = Len(b.data)]]

NilRequest == [nil |-> TRUE, Method |-> "", Body |-> NilBody]
Request(method, body) == [nil |-> FALSE, Method |-> method, Body |-> body]

BodyTexts == {<< >>, <<WS>>, DocNotJson, DocShortName}

RequestBodies ==
    {NilBody}
    \cup {Body(d, FALSE, 0) : d \in BodyTexts}
    \cup UNION {{Body(d, TRUE, k) : k \in 0..Min(MaxFailAt, Len(d))} :
                    d \in BodyTexts \ {<< >>}}

Methods == {"GET", "DELETE", "HEAD", "OPTIONS", "POST", "PUT", "get"}

HTTPOutcome(result, err, engine, r) ==
    [result |-> result, err |-> err, engine |-> engine, r |-> r]

\* ValidateRequest leaving the consumed body on the request
ValidateRequest_NoReattach(v, r, eng) ==
    IF r.nil
    THEN HTTPOutcome(NilResult, Errorf("requisicao nao pode ser nil", ""), 0, r)
    ELSE IF r.Body.nil
    THEN HTTPOutcome(NilResult, Errorf("corpo da requisicao nao pode ser nil", ""), 0, r)
    ELSE Bind(ReadAll(r.Body), LAMBDA rd :
           IF rd.err # ErrNil
           THEN HTTPOutcome(NilResult,
                            Errorf("erro ao ler corpo da requisicao: ", rd.err), 0,
                            [r EXCEPT !.Body = rd.body])
           ELSE Bind(ValidateBytes(v, rd.data, eng), LAMBDA o :
                  HTTPOutcome(o.result, o.err, o.engine,
                              [r EXCEPT !.Body = rd.body])))

ValidateRequest(v, r, eng) ==
    IF r.nil
    THEN HTTPOutcome(NilResult, Errorf("requisicao nao pode ser nil", ""), 0, r)
    ELSE IF r.Body.nil
    THEN HTTPOutcome(NilResult, Errorf("corpo da requisicao nao pode ser nil", ""), 0, r)
    ELSE Bind(ReadAll(r.Body), LAMBDA rd :
           IF rd.err # ErrNil
           THEN HTTPOutcome(NilResult,
                            Errorf("erro ao ler corpo da requisicao: ", rd.err), 0,
                            [r EXCEPT !.Body = rd.body])
           ELSE Bind(ValidateBytes(v, rd.data, eng), LAMBDA o :
                  HTTPOutcome(o.result, o.err, o.engine,
                              [r EXCEPT !.Body = NewReaderBody(rd.data)])))

(***************************************************************************)
(* The middleware.  The downstream handler and a configured ErrorHandler   *)
(* are the caller's: the one of the tests answers 200, the other 422 with  *)
(* the diagnostics.  A response records what was written and who ran.      *)
(***************************************************************************)
StatusOK == 200
StatusBadRequest == 400
StatusUnprocessableEntity == 422
StatusInternalServerError == 500

NoPayload == [kind |-> "none", error |-> << >>, details |-> << >>]

NoResponse ==
    [status |-> 0, payload |-> NoPayload, nextCalls |-> 0,
     defaultHandlerCalls |-> 0, customHandlerCalls |-> 0,
     nextSaw |-> NilRequest]

\* next(w, r)
CallNext(w, r) ==
    [w EXCEPT !.status = StatusOK, !.nextCalls = w.nextCalls + 1, !.nextSaw = r]

\* http.Error(w, msg, code)
HttpError(w, msg, code) ==
    [w EXCEPT !.status = code,
              !.payload = [kind |-> "text", error |-> msg, details |-> << >>]]

\* defaultErrorHandler answering without the diagnostics
defaultErrorHandler_NoDetails(w, r, result) ==
    [w EXCEPT !.status = StatusBadRequest,
              !.payload = [kind |-> "ErrorResponse",
                           error |-> <<"Dados de entrada invalidos">>,
                           details |-> << >>],
              !.defaultHandlerCalls = w.defaultHandlerCalls + 1]

defaultErrorHandler(w, r, result) ==
    [w EXCEPT !.status = StatusBadRequest,
              !.payload = [kind |-> "ErrorResponse",
                           error |-> <<"Dados de entrada invalidos">>,
                           details |-> result.Errors],
              !.defaultHandlerCalls = w.defaultHandlerCalls + 1]

\* the ErrorHandler of TestMiddlewareWithConfig
customErrorHandler(w, r, result) ==
    [w EXCEPT !.status = StatusUnprocessableEntity,
              !.payload = [kind |-> "custom", error |-> << >>,
                           details |-> result.Errors],
              !.customHandlerCalls = w.customHandlerCalls + 1]

MiddlewareConfig(skipMethods, errorHandler) ==
    [SkipMethods |-> skipMethods, ErrorHandler |-> errorHandler]

DefaultSkipMethods == <<"GET", "DELETE", "HEAD", "OPTIONS">>

Configs ==
    {MiddlewareConfig(s, h) :
        s \in {<< >>, <<"GET", "POST">>}, h \in {"nil", "custom"}}

InList(x, list) == \E i \in 1..Len(list) : list[i] = x

\* what serving one request did: the response, the request afterwards, the
\* validation the handler obtained (validated tells whether it asked for one)
Served(w, r, validated, o) ==
    [w |-> w, r |-> r, validated |-> validated,
     result |-> o.result, err |-> o.err, engine |-> o.engine]

\* the handler without the return after the error responder
MiddlewareWithConfig_FallThrough(v, config, w, r, eng) ==
    LET skip == IF Len(config.SkipMethods) = 0 THEN DefaultSkipMethods
                ELSE config.SkipMethods
        handler == IF config.ErrorHandler = "nil" THEN "default"
                   ELSE config.ErrorHandler
    IN  IF InList(r.Method, skip)
        THEN Served(CallNext(w, r), r, FALSE, Outcome(NilResult, NilError, 0))
        ELSE Bind(ValidateRequest(v, r, eng), LAMBDA o :
               IF o.err # NilError
               THEN Served(HttpError(w, <<"Erro interno de validacao: ">> \o o.err,
                                    StatusInternalServerError),
                          o.r, TRUE, o)
               ELSE IF ~o.result.Valid
               THEN Served(CallNext(IF handler = "default"
                                   THEN defaultErrorHandler(w, o.r, o.result)
                                   ELSE customErrorHandler(w, o.r, o.result), o.r),
                          o.r, TRUE, o)
               ELSE Served(CallNext(w, o.r), o.r, TRUE, o))

\* the handler answering every invalid request with defaultErrorHandler
MiddlewareWithConfig_DefaultHandler(v, config, w, r, eng) ==
    LET skip == IF Len(config.SkipMethods) = 0 THEN DefaultSkipMethods
                ELSE config.SkipMethods
    IN  IF InList(r.Method, skip)
        THEN Served(CallNext(w, r), r, FALSE, Outcome(NilResult, NilError, 0))
        ELSE Bind(ValidateRequest(v, r, eng), LAMBDA o :
               IF o.err # NilError
               THEN Served(HttpError(w, <<"Erro interno de validacao: ">> \o o.err,
                                     StatusInternalServerError),
                           o.r, TRUE, o)
               ELSE IF ~o.result.Valid
               THEN Served(defaultErrorHandler(w, o.r, o.result), o.r, TRUE, o)
               ELSE Served(CallNext(w, o.r), o.r, TRUE, o))

\* the handler adding config.SkipMethods to the default methods
MiddlewareWithConfig_ExtendDefaults(v, config, w, r, eng) ==
    LET skip == DefaultSkipMethods \o config.SkipMethods
        handler == IF config.ErrorHandler = "nil" THEN "default"
                   ELSE config.ErrorHandler
    IN  IF InList(r.Method, skip)
        THEN Served(CallNext(w, r), r, FALSE, Outcome(NilResult, NilError, 0))
        ELSE Bind(ValidateRequest(v, r, eng), LAMBDA o :
               IF o.err # NilError
               THEN Served(HttpError(w, <<"Erro interno de validacao: ">> \o o.err,
                                     StatusInternalServerError),
                           o.r, TRUE, o)
               ELSE IF ~o.result.Valid
               THEN Served(IF handler = "default"
                           THEN defaultErrorHandler(w, o.r, o.result)
                           ELSE customErrorHandler(w, o.r, o.result),
                           o.r, TRUE, o)
               ELSE Served(CallNext(w, o.r), o.r, TRUE, o))

\* the handler passing a failed validation to the error responder
MiddlewareWithConfig_ErrorToResponder(v, config, w, r, eng) ==
    LET skip == IF Len(config.SkipMethods) = 0 THEN DefaultSkipMethods
                ELSE config.SkipMethods
        handler == IF config.ErrorHandler = "nil" THEN "default"
                   ELSE config.ErrorHandler
    IN  IF InList(r.Method, skip)
        THEN Served(CallNext(w, r), r, FALSE, Outcome(NilResult, NilError, 0))
        ELSE Bind(ValidateRequest(v, r, eng), LAMBDA o :
               IF o.err # NilError \/ ~o.result.Valid
               THEN Served(IF handler = "default"
                           THEN defaultErrorHandler(w, o.r, o.result)
                           ELSE customErrorHandler(w, o.r, o.result),
                           o.r, TRUE, o)
               ELSE Served(CallNext(w, o.r), o.r, TRUE, o))

\* the handler MiddlewareWithConfig(config, next) returns, serving r on w
MiddlewareWithConfig(v, config, w, r, eng) ==
    LET skip == IF Len(config.SkipMethods) = 0 THEN DefaultSkipMethods
                ELSE config.SkipMethods
        handler == IF config.ErrorHandler = "nil" THEN "default"
                   ELSE config.ErrorHandler
    IN  IF InList(r.Method, skip)
        THEN Served(CallNext(w, r), r, FALSE, Outcome(NilResult, NilError, 0))
        ELSE Bind(ValidateRequest(v, r, eng), LAMBDA o :
               IF o.err # NilError
               THEN Served(HttpError(w, <<"Erro interno de validacao: ">> \o o.err,
                                     StatusInternalServerError),
                           o.r, TRUE, o)
               ELSE IF ~o.result.Valid
               THEN Served(IF handler = "default"
                           THEN defaultErrorHandler(w, o.r, o.result)
                           ELSE customErrorHandler(w, o.r, o.result),
                           o.r, TRUE, o)
               ELSE Served(CallNext(w, o.r), o.r, TRUE, o))

\* Middleware exempting POST as well
Middleware_SkipPost(v, w, r, eng) ==
    MiddlewareWithConfig(v, MiddlewareConfig(<<"GET", "DELETE", "HEAD", "OPTIONS", "POST">>,
                                             "nil"), w, r, eng)

Middleware(v, w, r, eng) ==
    MiddlewareWithConfig(v, MiddlewareConfig(<< >>, "nil"), w, r, eng)

(***************************************************************************)
(* The state: the *Validator the caller holds, the call it made last with  *)
(* what came back, the request it passed (before and after the call) and   *)
(* the response recorder.  The caller makes one call at a time and looks   *)
(* at what came back before the next one (Return).  earlier is what a      *)
(* later call is compared with, callers the goroutines that are inside a   *)
(* call at the same time, registry a MultiValidator; a single caller of    *)
(* one Validator leaves the three as they are.                             *)
(***************************************************************************)
IdleCall ==
    [op |-> "none", input |-> << >>, value |-> JNull, path |-> "",
     config |-> MiddlewareConfig(<< >>, "nil"), eng |-> NoEngine,
     err |-> NilError, result |-> NilResult, engine |-> 0,
     constructed |-> FALSE, validated |-> FALSE]

NoRequests == [in |-> NilRequest, out |-> NilRequest]

\* no validation is remembered
NoEarlier == [set |-> FALSE]

\* the goroutines that share one Validator or one MultiValidator
Callers == {1, 2}
IdleCaller == [pc |-> "idle"]
NoCallers == [t \in Callers |-> IdleCaller]

\* NewMultiValidator()
NewMultiValidator == [validators |-> EmptyMap]

Init ==
    /\ validator = NilValidator
    /\ call = IdleCall
    /\ request = NoRequests
    /\ response = NoResponse
    /\ earlier = NoEarlier
    /\ callers = NoCallers
    /\ registry = NewMultiValidator

Idle == call.op = "none"

\* the engine's answer as far as the call consulted it
Asked(engine, eng) == IF engine = 1 THEN eng ELSE NoEngine

Constructed(op, input, path, r) ==
    /\ validator' = r.v
    /\ call' = [IdleCall EXCEPT !.op = op, !.input = input, !.path = path,
                                !.err = r.err, !.constructed = ~r.v.nil]
    /\ UNCHANGED <<request, response, others>>

DoNewFromString ==
    /\ Idle
    /\ \E s \in SchemaTexts : \E r \in {NewFromString(s)} :
          Constructed("NewFromString", s, "", r)

DoNewFromBytes ==
    /\ Idle
    /\ \E s \in SchemaTexts : \E r \in {NewFromBytes(s)} :
          Constructed("NewFromBytes", s, "", r)

DoNew ==
    /\ Idle
    /\ \E path \in SchemaFiles : \E r \in {New(path)} :
          Constructed("New", << >>, path, r)

Validated(op, input, value, eng, o) ==
    /\ call' = [IdleCall EXCEPT !.op = op, !.input = input, !.value = value,
                                !.eng = Asked(o.engine, eng), !.err = o.err,
                                !.result = o.result, !.engine = o.engine,
                                !.validated = TRUE]
    /\ UNCHANGED <<validator, response, others>>

DoValidateBytes ==
    /\ Idle /\ ~validator.nil
    /\ \E d \in DocTexts, eng \in EngineOutcomes :
          /\ \E o \in {ValidateBytes(validator, d, eng)} :
                Validated("ValidateBytes", d, JNull, eng, o)
          /\ UNCHANGED request

DoValidateString ==
    /\ Idle /\ ~validator.nil
    /\ \E d \in DocTexts, eng \in EngineOutcomes :
          /\ \E o \in {ValidateString(validator, d, eng)} :
                Validated("ValidateString", d, JNull, eng, o)
          /\ UNCHANGED request

DoValidateInterface ==
    /\ Idle /\ ~validator.nil
    /\ \E x \in GoValues, eng \in EngineOutcomes :
          /\ \E o \in {ValidateInterface(validator, x, eng)} :
                Validated("ValidateInterface", << >>, x, eng, o)
          /\ UNCHANGED request

DoValidateRequest ==
    /\ Idle /\ ~validator.nil
    /\ \E r \in {NilRequest} \cup {Request("POST", b) : b \in RequestBodies},
          eng \in EngineOutcomes :
          \E o \in {ValidateRequest(validator, r, eng)} :
          /\ Validated("ValidateRequest", << >>, JNull, eng, o)
          /\ request' = [in |-> r, out |-> o.r]

Handled(op, config, r, eng, h) ==
    /\ call' = [IdleCall EXCEPT !.op = op, !.config = config,
                                !.eng = Asked(h.engine, eng), !.err = h.err,
                                !.result = h.result, !.engine = h.engine,
                                !.validated = h.validated]
    /\ request' = [in |-> r, out |-> h.r]
    /\ response' = h.w
    /\ UNCHANGED <<validator, others>>

DoMiddleware ==
    /\ Idle /\ ~validator.nil
    /\ \E m \in Methods, b \in RequestBodies, eng \in EngineOutcomes :
          \E h \in {Middleware(validator, NoResponse, Request(m, b), eng)} :
          Handled("Middleware", MiddlewareConfig(<< >>, "nil"), Request(m, b), eng, h)

DoMiddlewareWithConfig ==
    /\ Idle /\ ~validator.nil
    /\ \E config \in Configs, m \in Methods, b \in RequestBodies,
          eng \in EngineOutcomes :
          \E h \in {MiddlewareWithConfig(validator, config, NoResponse,
                                          Request(m, b), eng)} :
          Handled("MiddlewareWithConfig", config, Request(m, b), eng, h)

\* the caller is done with what the call returned
Return ==
    /\ ~Idle
    /\ call' = IdleCall
    /\ request' = NoRequests
    /\ response' = NoResponse
    /\ UNCHANGED <<validator, others>>

Next ==
    \/ DoNewFromString
    \/ DoNewFromBytes
    \/ DoNew
    \/ DoValidateBytes
    \/ DoValidateString
    \/ DoValidateInterface
    \/ DoValidateRequest
    \/ DoMiddleware
    \/ DoMiddlewareWithConfig
    \/ Return

Spec == Init /\ [][Next]_vars

(***************************************************************************)
(* One Validator asked about the same bytes again.  ValidateBytes hands    *)
(* v.schema, a loader, to gojsonschema.Validate on every call: the engine  *)
(* compiles the schema anew each time and ranges over its Go maps, so on   *)
(* the same schema and document it reports the same violations, in an      *)
(* order that may differ from call to call.                                *)
(***************************************************************************)

\* what the engine may answer when asked again what it answered eng: the
\* same violations, in any order
AnswersAgain(eng) ==
    IF eng.err THEN {eng}
    ELSE {[err |-> FALSE, errors |-> [i \in 1..Len(eng.errors) |-> eng.errors[p[i]]]] :
             p \in Permutations(1..Len(eng.errors))}

RepeatInit ==
    /\ validator \in {NewFromBytes(SchemaPlain).v, NewFromBytes(SchemaArrayItems).v}
    /\ call = IdleCall
    /\ request = NoRequests
    /\ response = NoResponse
    /\ earlier = NoEarlier
    /\ callers = NoCallers
    /\ registry = NewMultiValidator

ValidateFirst ==
    /\ Idle /\ ~earlier.set
    /\ \E d \in {<< >>, DocNotJson, DocBadEmail}, eng \in EngineOutcomes :
          \E o \in {ValidateBytes(validator, d, eng)} :
          /\ call' = [IdleCall EXCEPT !.op = "ValidateBytes", !.input = d,
                                      !.eng = Asked(o.engine, eng), !.err = o.err,
                                      !.result = o.result, !.engine = o.engine,
                                      !.validated = TRUE]
          /\ earlier' = [set |-> TRUE, input |-> d, eng |-> Asked(o.engine, eng),
                          result |-> o.result, err |-> o.err]
    /\ UNCHANGED <<validator, request, response, callers, registry>>

ValidateBetween ==
    /\ Idle /\ earlier.set
    /\ \E d \in {DocShortName}, eng \in EngineOutcomes :
          \E o \in {ValidateString(validator, d, eng)} :
          Validated("ValidateString", d, JNull, eng, o)
    /\ UNCHANGED request

ValidateAgain ==
    /\ Idle /\ earlier.set
    /\ \E eng \in AnswersAgain(earlier.eng) :
          \E o \in {ValidateBytes(validator, earlier.input, eng)} :
          Validated("ValidateBytes", earlier.input, JNull, eng, o)
    /\ UNCHANGED request

RepeatNext ==
    \/ ValidateFirst
    \/ ValidateBetween
    \/ ValidateAgain
    \/ Return

SpecRepeat == RepeatInit /\ [][RepeatNext]_vars

(***************************************************************************)
(* Several goroutines validating with one Validator at once, as the        *)
(* handlers of concurrent requests do.  A call to ValidateBytes is split   *)
(* at the places where it reads the Validator: the engine is given         *)
(* v.schema, and buildValidationResult reads v.customErrors once for each  *)
(* violation.  The steps of different callers interleave freely.           *)
(***************************************************************************)
SharedValidator == NewFromBytes(SchemaArrayItems).v

ConcurrentInit ==
    /\ validator = SharedValidator
    /\ call = IdleCall
    /\ request = NoRequests
    /\ response = NoResponse
    /\ earlier = NoEarlier
    /\ callers = NoCallers
    /\ registry = NewMultiValidator

\* v.ValidateBytes(jsonData) is called
Enter(t) ==
    /\ callers[t].pc = "idle"
    /\ \E d \in {<< >>, DocNotJson, DocBadEmail} :
          callers' = [callers EXCEPT ![t] =
                         [pc |-> "decode", input |-> d, eng |-> NoEngine,
                          pending |-> << >>, built |-> << >>,
                          result |-> NilResult, err |-> NilError]]
    /\ UNCHANGED <<validator, call, request, response, earlier, registry>>

\* the guard on empty data and json.Unmarshal
Decode(t) ==
    /\ callers[t].pc = "decode"
    /\ IF Len(callers[t].input) = 0
       THEN callers' = [callers EXCEPT ![t].pc = "done",
                           ![t].err = Errorf("dados JSON nao podem estar vazios", "")]
       ELSE \E u \in {UnmarshalAny(callers[t].input)} :
              IF u.err # ErrNil
              THEN callers' = [callers EXCEPT ![t].pc = "done",
                      ![t].result = ValidationResult(FALSE,
                          <<ValidationError(<<"root">>, <<"JSON invalido: ", u.err>>,
                                            NilValue, "format", "")>>)]
              ELSE callers' = [callers EXCEPT ![t].pc = "engine"]
    /\ UNCHANGED <<validator, call, request, response, earlier, registry>>

\* gojsonschema.Validate(v.schema, document), and the start of
\* buildValidationResult
AskEngine(t) ==
    /\ callers[t].pc = "engine"
    /\ ~validator.nil
    /\ \E eng \in {a \in EngineOutcomes :
                      \A i \in 1..Len(a.errors) :
                          a.errors[i].field[Len(a.errors[i].field)] = "email"} :
          IF eng.err
          THEN callers' = [callers EXCEPT ![t].pc = "done", ![t].eng = eng,
                              ![t].err = Errorf("erro durante validacao do schema: ", "engine")]
          ELSE IF Len(eng.errors) = 0
          THEN callers' = [callers EXCEPT ![t].pc = "done", ![t].eng = eng,
                              ![t].result = ValidationResult(TRUE, << >>)]
          ELSE callers' = [callers EXCEPT ![t].pc = "build", ![t].eng = eng,
                              ![t].pending = eng.errors]
    /\ UNCHANGED <<validator, call, request, response, earlier, registry>>

\* one round of the loop of buildValidationResult, storing the message it
\* resolved in the Validator's table
BuildNext_Memoise(t) ==
    /\ callers[t].pc = "build"
    /\ \E e \in {buildValidationError(validator, Head(callers[t].pending))} :
          \E built \in {Append(callers[t].built, e)} :
          /\ IF Len(callers[t].pending) = 1
             THEN callers' = [callers EXCEPT ![t].pc = "done", ![t].pending = << >>,
                                 ![t].built = built,
                                 ![t].result = ValidationResult(FALSE, built)]
             ELSE callers' = [callers EXCEPT ![t].pending = Tail(@), ![t].built = built]
          /\ validator' = [validator EXCEPT !.customErrors =
                              (e.Field[1] :> (e.Constraint :> e.Message[1])) @@ @]
    /\ UNCHANGED <<call, request, response, earlier, registry>>

\* one round of the loop of buildValidationResult
BuildNext(t) ==
    /\ callers[t].pc = "build"
    /\ \E e \in {buildValidationError(validator, Head(callers[t].pending))} :
          \E built \in {Append(callers[t].built, e)} :
          IF Len(callers[t].pending) = 1
          THEN callers' = [callers EXCEPT ![t].pc = "done", ![t].pending = << >>,
                              ![t].built = built,
                              ![t].result = ValidationResult(FALSE, built)]
          ELSE callers' = [callers EXCEPT ![t].pending = Tail(@), ![t].built = built]
    /\ UNCHANGED <<validator, call, request, response, earlier, registry>>

\* the caller has taken what ValidateBytes returned
Leave(t) ==
    /\ callers[t].pc = "done"
    /\ callers' = [callers EXCEPT ![t] = IdleCaller]
    /\ UNCHANGED <<validator, call, request, response, earlier, registry>>

ConcurrentNext ==
    \E t \in Callers :
        \/ Enter(t)
        \/ Decode(t)
        \/ AskEngine(t)
        \/ BuildNext(t)
        \/ Leave(t)

SpecConcurrent == ConcurrentInit /\ [][ConcurrentNext]_vars

(***************************************************************************)
(* MultiValidator.  A *Validator is a pointer: the address of the instance *)
(* and the Validator there (immutable, so it is kept with the address);    *)
(* nil has address 0.  earlier counts the instances allocated and keeps,   *)
(* for every key, the last write that succeeded: whether it was an add,    *)
(* which operation made it and the pointer it stored.                      *)
(***************************************************************************)
NilPointer == [addr |-> 0, v |-> NilValidator]
Pointer(addr, v) == [addr |-> addr, v |-> v]

RegistryKeys == {"user", "simple"}

\* Add leaving a key that is already registered as it is
Add_KeepFirst(mv, key, p) ==
    [mv EXCEPT !.validators = @ @@ (key :> p)]

Add(mv, key, p) ==
    [mv EXCEPT !.validators = (key :> p) @@ @]

\* AddFromFile adding whatever New returned
AddFromFile_NoReturn(mv, key, schemaPath, addr) ==
    Bind(New(schemaPath), LAMBDA r :
      IF r.err # NilError THEN [mv |-> Add(mv, key, NilPointer), err |-> r.err]
      ELSE [mv |-> Add(mv, key, Pointer(addr, r.v)), err |-> NilError])

\* addr is where the new Validator is allocated
AddFromFile(mv, key, schemaPath, addr) ==
    Bind(New(schemaPath), LAMBDA r :
      IF r.err # NilError THEN [mv |-> mv, err |-> r.err]
      ELSE [mv |-> Add(mv, key, Pointer(addr, r.v)), err |-> NilError])

\* AddFromString sharing the Validator of an entry with the same schema
AddFromString_Shared(mv, key, schemaJSON, addr) ==
    Bind(NewFromString(schemaJSON), LAMBDA r :
      IF r.err # NilError THEN [mv |-> mv, err |-> r.err]
      ELSE IF \E k \in DOMAIN mv.validators : mv.validators[k].v = r.v
      THEN [mv |-> Add(mv, key, CHOOSE q \in {mv.validators[k] : k \in DOMAIN mv.validators} :
                                    q.v = r.v),
            err |-> NilError]
      ELSE [mv |-> Add(mv, key, Pointer(addr, r.v)), err |-> NilError])

AddFromString(mv, key, schemaJSON, addr) ==
    Bind(NewFromString(schemaJSON), LAMBDA r :
      IF r.err # NilError THEN [mv |-> mv, err |-> r.err]
      ELSE [mv |-> Add(mv, key, Pointer(addr, r.v)), err |-> NilError])

Get(mv, key) ==
    IF key \in DOMAIN mv.validators
    THEN [validator |-> mv.validators[key], exists |-> TRUE]
    ELSE [validator |-> NilPointer, exists |-> FALSE]

Remove(mv, key) ==
    [mv EXCEPT !.validators = [k \in (DOMAIN @) \ {key} |-> @[k]]]

\* Keys with make([]string, len(mv.validators)) for its slice
Keys_ZeroedSlice(mv) ==
    LET n == Cardinality(DOMAIN mv.validators) IN
    {[i \in 1..n |-> ""] \o ks :
        ks \in {f \in [1..n -> DOMAIN mv.validators] :
                   \A i, j \in 1..n : f[i] = f[j] => i = j}}

\* what Keys may return: the keys, in any of the orders of a range over a map
Keys(mv) ==
    LET n == Cardinality(DOMAIN mv.validators) IN
    {f \in [1..n -> DOMAIN mv.validators] : \A i, j \in 1..n : f[i] = f[j] => i = j}

Count(mv) == Cardinality(DOMAIN mv.validators)

\* nothing was written yet
NoWrites ==
    [set |-> FALSE, allocated |-> 0,
     last |-> [k \in RegistryKeys |-> [added |-> FALSE, by |-> "none", p |-> NilPointer]]]

\* a successful write of key by operation op
Wrote(key, op, added, p, allocated) ==
    [earlier EXCEPT !.allocated = allocated,
                    !.last[key] = [added |-> added, by |-> op, p |-> p]]

\* what the last registry operation was and what it returned
Answer(op, key) ==
    [key |-> key, found |-> FALSE, got |-> NilPointer, keys |-> << >>, count |-> 0]
    @@ [IdleCall EXCEPT !.op = op]

RegistryInit ==
    /\ validator = NilValidator
    /\ call = IdleCall
    /\ request = NoRequests
    /\ response = NoResponse
    /\ earlier = NoWrites
    /\ callers = NoCallers
    /\ registry = NewMultiValidator

\* the caller passes nil, a pointer it got from the registry, or one to a
\* Validator it has just constructed
DoAdd ==
    /\ \E key \in RegistryKeys,
          p \in {NilPointer}
                \cup {registry.validators[k] : k \in DOMAIN registry.validators}
                \cup (IF earlier.allocated < MaxInstances
                      THEN {Pointer(earlier.allocated + 1, NewFromBytes(SchemaPlain).v)}
                      ELSE {}) :
          /\ registry' = Add(registry, key, p)
          /\ earlier' = Wrote(key, "Add", TRUE, p,
                              IF p.addr > earlier.allocated THEN p.addr
                              ELSE earlier.allocated)
          /\ call' = Answer("Add", key)
    /\ UNCHANGED <<validator, request, response, callers>>

\* the registry and the error an AddFrom... call ended with
Added(op, key, input, path, r) ==
    /\ registry' = r.mv
    /\ earlier' = IF r.err = NilError
                  THEN Wrote(key, op, TRUE, r.mv.validators[key], earlier.allocated + 1)
                  ELSE earlier
    /\ call' = [Answer(op, key) EXCEPT !.input = input, !.path = path, !.err = r.err]
    /\ UNCHANGED <<validator, request, response, callers>>

DoAddFromString ==
    /\ earlier.allocated < MaxInstances
    /\ \E key \in RegistryKeys,
          s \in {SchemaPlain, SchemaTruncated, << >>, <<WS>>} :
          \E r \in {AddFromString(registry, key, s, earlier.allocated + 1)} :
          Added("AddFromString", key, s, "", r)

DoAddFromFile ==
    /\ earlier.allocated < MaxInstances
    /\ \E key \in RegistryKeys, path \in SchemaFiles :
          \E r \in {AddFromFile(registry, key, path, earlier.allocated + 1)} :
          Added("AddFromFile", key, << >>, path, r)

DoGet ==
    /\ \E key \in RegistryKeys \cup {"inexistente"} :
          \E g \in {Get(registry, key)} :
          call' = [Answer("Get", key) EXCEPT !.found = g.exists, !.got = g.validator]
    /\ UNCHANGED <<validator, request, response, earlier, callers, registry>>

DoRemove ==
    /\ \E key \in RegistryKeys :
          /\ registry' = Remove(registry, key)
          /\ earlier' = Wrote(key, "Remove", FALSE, NilPointer, earlier.allocated)
          /\ call' = Answer("Remove", key)
    /\ UNCHANGED <<validator, request, response, callers>>

DoKeys ==
    /\ \E ks \in Keys(registry) :
          call' = [Answer("Keys", "") EXCEPT !.keys = ks]
    /\ UNCHANGED <<validator, request, response, earlier, callers, registry>>

DoCount ==
    /\ call' = [Answer("Count", "") EXCEPT !.count = Count(registry)]
    /\ UNCHANGED <<validator, request, response, earlier, callers, registry>>

RegistryNext ==
    \/ DoAdd
    \/ DoAddFromString
    \/ DoAddFromFile
    \/ DoGet
    \/ DoRemove
    \/ DoKeys
    \/ DoCount

SpecRegistry == RegistryInit /\ [][RegistryNext]_vars

(***************************************************************************)
(* One MultiValidator used by several goroutines.  An operation is inside  *)
(* the map from its call to its return; it takes no lock on the way in,    *)
(* there is none in the type.  When two operations are inside at once and  *)
(* one of them writes, the accesses race: the Go runtime may stop the      *)
(* program (fatal error: concurrent map writes), and otherwise each        *)
(* operation takes effect when it returns.                                 *)
(***************************************************************************)
\* the operations that write mv.validators
Writers == {"Add", "Remove"}

\* two operations are inside the map at once and one of them writes
Racing ==
    \E t, u \in Callers :
        /\ t # u
        /\ callers[t].pc = "inside" /\ callers[u].pc = "inside"
        /\ callers[t].op \in Writers

\* the operation entering only when no other is inside, as under a mutex
RegistryEnter_Locked(t) ==
    /\ call.op # "fatal"
    /\ callers[t].pc = "idle"
    /\ \A u \in Callers \ {t} : callers[u].pc = "idle"
    /\ \E op \in Writers \cup {"Get", "Count"}, key \in RegistryKeys,
          p \in {NilPointer, Pointer(1, SharedValidator)} :
          /\ (op # "Add" => p = NilPointer)
          /\ (op = "Count" => key = "user")
          /\ callers' = [callers EXCEPT ![t] =
                             [pc |-> "inside", op |-> op, key |-> key, p |-> p]]
    /\ UNCHANGED <<validator, call, request, response, earlier, registry>>

\* caller t calls an operation of the registry
RegistryEnter(t) ==
    /\ call.op # "fatal"
    /\ callers[t].pc = "idle"
    /\ \E op \in Writers \cup {"Get", "Count"}, key \in RegistryKeys,
          p \in {NilPointer, Pointer(1, SharedValidator)} :
          /\ (op # "Add" => p = NilPointer)
          /\ (op = "Count" => key = "user")
          /\ callers' = [callers EXCEPT ![t] =
                             [pc |-> "inside", op |-> op, key |-> key, p |-> p]]
    /\ UNCHANGED <<validator, call, request, response, earlier, registry>>

\* the operation of caller t returns
RegistryExit(t) ==
    /\ call.op # "fatal"
    /\ callers[t].pc = "inside"
    /\ registry' = CASE callers[t].op = "Add" -> Add(registry, callers[t].key, callers[t].p)
                      [] callers[t].op = "Remove" -> Remove(registry, callers[t].key)
                      [] OTHER -> registry
    /\ callers' = [callers EXCEPT ![t] = IdleCaller]
    /\ UNCHANGED <<validator, call, request, response, earlier>>

\* the runtime detects the race and stops the program
FatalError ==
    /\ call.op # "fatal"
    /\ Racing
    /\ call' = [IdleCall EXCEPT !.op = "fatal",
                                !.err = <<"fatal error: concurrent map writes">>]
    /\ UNCHANGED <<validator, request, response, earlier, callers, registry>>

RaceNext ==
    \/ \E t \in Callers : RegistryEnter(t)
    \/ \E t \in Callers : RegistryExit(t)
    \/ FatalError

SpecRace == RegistryInit /\ [][RaceNext]_vars

(***************************************************************************)
(* What the claims speak of.                                               *)
(***************************************************************************)
Constructors == {"NewFromString", "NewFromBytes"}
TextValidators == {"ValidateBytes", "ValidateString"}
ValidateOps == {"ValidateBytes", "ValidateString", "ValidateInterface", "ValidateRequest"}
MiddlewareOps == {"Middleware", "MiddlewareWithConfig"}

Diagnostics == call.result.Errors

\* the text is not empty and is no JSON document
Unparseable(text) == Len(text) > 0 /\ ~ParseText(text).ok

\* the method set the handler of the last call exempts
ExemptMethods ==
    IF Len(call.config.SkipMethods) = 0
    THEN {"GET", "DELETE", "HEAD", "OPTIONS"}
    ELSE {call.config.SkipMethods[i] : i \in 1..Len(call.config.SkipMethods)}

\* the last call was a middleware request whose method is not exempt
NonExemptRequest == call.op \in MiddlewareOps /\ request.in.Method \notin ExemptMethods

\* what validating the request of the last call gives, run alone
RequestValidation == ValidateRequest(validator, request.in, call.eng)

ResponderCalls == response.defaultHandlerCalls + response.customHandlerCalls

\* reading the body of the request again, after the call
Reread == ReadAll(request.out.Body)
Replayed == Reread.err = ErrNil /\ Reread.data = request.in.Body.data

\* the messages a schema text declares on its top-level properties:
\* <<P, C, M>> for properties.P.errorMessage.C = M
TopLevelMessages(schemaText) ==
    LET schema == ParseText(schemaText).v
        props == ObjAt(schema, "properties")
    IN  IF ~HasObjAt(schema, "properties") THEN {}
        ELSE UNION {
               LET em == ObjAt(props.m[f], "errorMessage") IN
               {<<f, c, em.m[c].s>> : c \in {k \in DOMAIN em.m : em.m[k].t = "str"}}
               : f \in {g \in DOMAIN props.m : HasObjAt(props.m[g], "errorMessage")}}

\* C1: with properties.P.errorMessage.C = M at the top level of an object
\* schema, every diagnostic on field P with constraint C has Message M.
C1_TopLevelPropertyMessage ==
    (call.validated /\ ~call.result.nil /\ ~validator.nil) =>
        \A i \in 1..Len(Diagnostics) :
            \A t \in TopLevelMessages(validator.schema) :
                (Diagnostics[i].Field = <<t[1]>> /\ Diagnostics[i].Constraint = t[2])
                    => Diagnostics[i].Message = <<t[3]>>

\* C2 as stated: an empty or whitespace-only schema or document makes the
\* call fail with an error, and neither a Validator nor a result comes back.
C2_BlankInputFails ==
    (call.op \in Constructors \cup TextValidators /\ IsBlank(call.input)) =>
        /\ call.err # NilError
        /\ ~call.constructed
        /\ call.result.nil

\* C2 as amended: an empty schema or document and a whitespace-only schema
\* fail with an error and nothing else; a whitespace-only document of at
\* least one byte is answered without error by a result with Valid = FALSE.
C2_BlankInputAmended ==
    /\ (call.op \in Constructors /\ IsBlank(call.input)) =>
          (call.err # NilError /\ ~call.constructed /\ call.result.nil)
    /\ (call.op \in TextValidators /\ Len(call.input) = 0) =>
          (call.err # NilError /\ call.result.nil)
    /\ (call.op \in TextValidators /\ Len(call.input) > 0 /\ IsBlank(call.input)) =>
          (call.err = NilError /\ ~call.result.nil /\ ~call.result.Valid)

C2_Witness ==
    /\ call.op = "ValidateString"
    /\ Len(call.input) > 0 /\ IsBlank(call.input)
    /\ ~call.result.nil

\* C3: ValidateBytes and ValidateString on a non-empty text that is no JSON
\* return no error and a result with Valid = FALSE and exactly one diagnostic,
\* of constraint "format", whose message holds the decoder's error; the
\* engine is not called.
C3_UnparseableDocument ==
    (call.op \in TextValidators /\ Unparseable(call.input)) =>
        /\ call.err = NilError
        /\ ~call.result.nil
        /\ ~call.result.Valid
        /\ Len(Diagnostics) = 1
        /\ Diagnostics[1].Constraint = "format"
        /\ \E k \in 1..Len(Diagnostics[1].Message) :
              Diagnostics[1].Message[k] =
                  SyntaxErrorText(call.input, ParseText(call.input))
        /\ call.engine = 0

C3_Witness ==
    /\ call.op = "ValidateBytes"
    /\ call.input = DocNotJson
    /\ ~call.result.nil

\* C4 as stated: no diagnostic names the root by a placeholder, and the one
\* diagnostic of an unparseable document has Field "".
C4_RootFieldEmpty ==
    (call.validated /\ ~call.result.nil) =>
        /\ \A i \in 1..Len(Diagnostics) :
              Diagnostics[i].Field \notin {<<"root">>, <<"(root)">>}
        /\ (call.engine = 0 /\ ~call.result.Valid) => Diagnostics[1].Field = <<"">>

\* C4 as amended: a diagnostic built from an engine violation at the root has
\* Field "", never the engine's "(root)"; the one diagnostic of an unparseable
\* document has Field "root".
C4_RootFieldAmended ==
    (call.validated /\ ~call.result.nil) =>
        /\ \A i \in 1..Len(Diagnostics) : Diagnostics[i].Field # <<"(root)">>
        /\ call.engine = 1 =>
              \A i \in 1..Len(Diagnostics) :
                  call.eng.errors[i].field = <<"(root)">>
                      => Diagnostics[i].Field = <<"">>
        /\ (call.engine = 0 /\ ~call.result.Valid) => Diagnostics[1].Field = <<"root">>

C4_Witness ==
    /\ call.validated /\ ~call.result.nil /\ call.engine = 1
    /\ \E i \in 1..Len(Diagnostics) :
          call.eng.errors[i].field = <<"(root)">> /\ Diagnostics[i].Field = <<"">>

\* C5: ValidateString on malformed JSON returns exactly one error, and its
\* Field is the string "root".
C5_MalformedFieldRoot ==
    (call.op = "ValidateString" /\ Unparseable(call.input)) =>
        /\ ~call.result.nil
        /\ Len(Diagnostics) = 1
        /\ Diagnostics[1].Field = <<"root">>

C5_Witness ==
    /\ call.op = "ValidateString"
    /\ call.input = DocTruncated
    /\ Len(Diagnostics) = 1

C7_ThreeOutcomes ==
    NonExemptRequest =>
        LET o == RequestValidation IN
        /\ o.err # NilError =>
              /\ response.status = StatusInternalServerError
              /\ response.nextCalls = 0 /\ ResponderCalls = 0
        /\ (o.err = NilError /\ ~o.result.Valid) =>
              (ResponderCalls = 1 /\ response.nextCalls = 0)
        /\ (o.err = NilError /\ o.result.Valid) =>
              (response.nextCalls = 1 /\ ResponderCalls = 0)

C7_Witness ==
    /\ NonExemptRequest
    /\ request.in.Method = "PUT"
    /\ ~call.result.nil /\ ~call.result.Valid
    /\ ResponderCalls = 1 /\ response.nextCalls = 0

\* C8: with the default configuration a GET, DELETE, HEAD or OPTIONS request
\* reaches the downstream handler once, unchanged, its body neither read nor
\* validated; a request of any other method is validated.
C8_DefaultExemption ==
    (call.op \in MiddlewareOps /\ Len(call.config.SkipMethods) = 0) =>
        IF request.in.Method \in {"GET", "DELETE", "HEAD", "OPTIONS"}
        THEN /\ response.nextCalls = 1
             /\ ResponderCalls = 0
             /\ response.nextSaw = request.in
             /\ request.out = request.in
             /\ ~call.validated
             /\ call.engine = 0
        ELSE call.validated

C8_Witness ==
    /\ call.op = "Middleware"
    /\ request.in.Method = "GET"
    /\ request.in.Body.data = DocNotJson
    /\ response.nextCalls = 1

\* C9: with no ErrorHandler configured, a rejected request is answered with
\* status 400 and a payload whose error is the fixed summary and whose details
\* are the diagnostics of the validation result, in their order.
C9_DefaultResponder ==
    (/\ NonExemptRequest
     /\ call.config.ErrorHandler = "nil"
     /\ RequestValidation.err = NilError
     /\ ~RequestValidation.result.Valid) =>
        /\ response.status = StatusBadRequest
        /\ response.payload.kind = "ErrorResponse"
        /\ response.payload.error = <<"Dados de entrada invalidos">>
        /\ response.payload.details = RequestValidation.result.Errors

C9_Witness ==
    /\ call.op = "MiddlewareWithConfig"
    /\ call.config.ErrorHandler = "nil"
    /\ response.status = StatusBadRequest
    /\ Len(response.payload.details) = 2
    /\ response.payload.details[1] # response.payload.details[2]

\* the last call met an operational failure: empty input, nil request, nil
\* body, a failed body read, a value with no encoding, an engine failure
OperationalFailure ==
    \/ call.op \in TextValidators /\ Len(call.input) = 0
    \/ call.op = "ValidateInterface" /\ ~Marshal(call.value).ok
    \/ call.op = "ValidateRequest"
       /\ (\/ request.in.nil
           \/ request.in.Body.nil
           \/ request.in.Body.fails
           \/ Len(request.in.Body.data) = 0)
    \/ call.engine = 1 /\ call.eng.err

\* C10: a Validate entry point returns an error or a result, never both and
\* never neither: an operational failure gives an error and no result, and
\* anything else, invalid data included, gives a result and no error.
C10_ErrorOrResult ==
    call.op \in ValidateOps =>
        /\ (call.err # NilError) # (~call.result.nil)
        /\ OperationalFailure => (call.err # NilError /\ call.result.nil)
        /\ ~OperationalFailure => (call.err = NilError /\ ~call.result.nil)

C10_Witness ==
    /\ call.op = "ValidateInterface"
    /\ call.engine = 1 /\ call.eng.err
    /\ call.err # NilError /\ call.result.nil
\* C11: every result a Validate entry point (or the validation inside the
\* middleware) returns has Valid = TRUE exactly when its Errors list is
\* empty; a result with Valid = FALSE carries at least one diagnostic.
C11_ValidIffNoErrors ==
    (call.validated /\ ~call.result.nil) =>
        /\ call.result.Valid <=> (Len(Diagnostics) = 0)
        /\ ~call.result.Valid => Len(Diagnostics) >= 1

C11_Witness ==
    /\ call.op = "ValidateInterface"
    /\ ~call.result.nil /\ ~call.result.Valid
    /\ Len(Diagnostics) = 2

\* the overlay entries of the field the i-th violation is looked up under:
\* the first segment of its path, the root prefix stripped
OverlayOf(i) ==
    LET f == Diagnostics[i].Field[1] IN
    IF f \in DOMAIN validator.customErrors THEN validator.customErrors[f]
    ELSE EmptyMap

\* C12: the Message of the diagnostic of a violation is the overlay message
\* of its field for the violated constraint when there is one, even beside a
\* wildcard ("_") message; the wildcard message when there is only that; and
\* the engine's description when there is neither.
C12_OverlayPrecedence ==
    (call.validated /\ call.engine = 1 /\ ~call.result.nil) =>
        \A i \in 1..Len(Diagnostics) :
            LET err == call.eng.errors[i]
                msgs == OverlayOf(i)
            IN  /\ err.type \in DOMAIN msgs =>
                      Diagnostics[i].Message = <<msgs[err.type]>>
                /\ (err.type \notin DOMAIN msgs /\ "_" \in DOMAIN msgs) =>
                      Diagnostics[i].Message = <<msgs["_"]>>
                /\ (err.type \notin DOMAIN msgs /\ "_" \notin DOMAIN msgs) =>
                      Diagnostics[i].Message = <<err.description>>

C12_Witness ==
    /\ call.op = "ValidateBytes" /\ Len(Diagnostics) = 2
    /\ {"format", "_"} \subseteq DOMAIN OverlayOf(1)
    /\ Diagnostics[1].Constraint = "format"
    /\ Diagnostics[1].Message = <<"bad email">>
    /\ Diagnostics[2].Constraint = "invalid_type"
    /\ Diagnostics[2].Message = <<"bad field">>

\* the text is a JSON object, not empty
WellFormedSchema(text) ==
    Len(text) > 0 /\ ParseText(text).ok /\ IsObj(ParseText(text).v)

\* C13: a constructor given a non-empty well-formed schema returns a
\* Validator and no error, and validating with it a document on which the
\* engine reports no violation returns no error and a result with
\* Valid = TRUE and no diagnostics.
C13_SatisfyingDocument ==
    /\ (call.op \in Constructors /\ WellFormedSchema(call.input)) =>
          (call.constructed /\ call.err = NilError /\ ~validator.nil)
    /\ (/\ call.op \in ValidateOps
        /\ ~validator.nil /\ WellFormedSchema(validator.schema)
        /\ call.engine = 1 /\ ~call.eng.err /\ Len(call.eng.errors) = 0) =>
          /\ call.err = NilError
          /\ ~call.result.nil
          /\ call.result.Valid
          /\ Diagnostics = << >>

C13_Witness ==
    /\ call.op = "ValidateString"
    /\ validator.schema = SchemaPlain
    /\ call.input = DocShortName
    /\ call.engine = 1
    /\ call.result.Valid
\* C14: validating the same bytes again with the same Validator, other
\* validations in between or not, returns what the first validation
\* returned: the same error or the same result, with the same Valid flag and
\* the same diagnostics in the same order.
C14_RepeatIdentical ==
    (earlier.set /\ call.op = "ValidateBytes" /\ call.input = earlier.input) =>
        /\ call.err = earlier.err
        /\ call.result = earlier.result
\* C15: while several callers validate with one Validator at once, no step
\* of any of them writes the Validator's schema or its overlay table, and
\* every call that has returned returned what ValidateBytes returns for its
\* data and the engine's answer when run alone.
C15_ConcurrentReaders ==
    /\ validator = SharedValidator
    /\ \A t \in Callers :
          callers[t].pc = "done" =>
              LET alone == ValidateBytes(SharedValidator, callers[t].input, callers[t].eng)
              IN  /\ callers[t].result = alone.result
                  /\ callers[t].err = alone.err

C15_Witness ==
    /\ callers[1].pc = "done" /\ callers[2].pc = "build"
    /\ Len(callers[1].result.Errors) = 2
    /\ callers[1].result.Errors[2].Message = <<"bad field">>
    /\ Len(callers[2].built) = 1
\* the keys whose last successful operation was an add
Registered == {k \in RegistryKeys : earlier.last[k].added}

\* C16: after any sequence of Add, AddFromString, AddFromFile and Remove,
\* Get(k) returns found = TRUE exactly when the last successful operation on
\* k was an add, and then the Validator that add stored; a Get that was
\* made returned just that, without an error; and a Remove of a key that is
\* not registered leaves the registry as it was.
C16_LastWriterWins ==
    /\ [](/\ \A k \in RegistryKeys :
               /\ Get(registry, k).exists <=> earlier.last[k].added
               /\ earlier.last[k].added => Get(registry, k).validator = earlier.last[k].p
          /\ ~Get(registry, "inexistente").exists
          /\ call.op = "Get" =>
               /\ call.err = NilError
               /\ call.found <=> (call.key \in Registered)
               /\ call.found => call.got = earlier.last[call.key].p)
    /\ [][(call'.op = "Remove" /\ call'.key \notin Registered) =>
             registry' = registry]_vars

C16_Witness ==
    /\ call.op = "Get" /\ call.key = "user" /\ call.found
    /\ earlier.last["user"].by = "AddFromString"
    /\ call.got.addr = 3
    /\ ~earlier.last["simple"].added /\ earlier.last["simple"].by = "Remove"

\* C17: in every state of a MultiValidator, whatever order Keys() returns
\* the keys in, it returns each registered key once and nothing else, and
\* Count() is the number of registered keys; a new registry has Count 0.
C17_KeysAndCount ==
    /\ \A ks \in Keys(registry) :
          /\ {ks[i] : i \in 1..Len(ks)} = Registered
          /\ Len(ks) = Cardinality(Registered)
    /\ Count(registry) = Cardinality(Registered)
    /\ Count(NewMultiValidator) = 0
    /\ call.op = "Keys" =>
          /\ {call.keys[i] : i \in 1..Len(call.keys)} = Registered
          /\ \A i, j \in 1..Len(call.keys) : call.keys[i] = call.keys[j] => i = j
    /\ call.op = "Count" => call.count = Cardinality(Registered)

C17_Witness ==
    /\ call.op = "Keys"
    /\ call.keys = <<"user", "simple">>
    /\ Count(registry) = 2

\* two registered keys hold the same Validator instance
SameInstance(k1, k2) ==
    /\ k1 # k2 /\ k1 \in Registered /\ k2 \in Registered
    /\ registry.validators[k1].addr # 0
    /\ registry.validators[k1].addr = registry.validators[k2].addr

\* C18 as stated: the entries under two distinct keys are never the same
\* Validator instance.
C18_NoSharedInstance ==
    \A k1, k2 \in RegistryKeys : ~SameInstance(k1, k2)

\* C18 as amended: the entries under two distinct keys are the same
\* Validator instance only when the caller passed that instance to Add for
\* one of them; the instance AddFromString or AddFromFile registers is a new
\* one, held by no other key.
C18_NoSharedInstanceAmended ==
    /\ \A k1, k2 \in RegistryKeys :
          SameInstance(k1, k2) =>
              (earlier.last[k1].by = "Add" \/ earlier.last[k2].by = "Add")
    /\ (call.op \in {"AddFromString", "AddFromFile"} /\ call.err = NilError) =>
          \A k \in Registered \ {call.key} : ~SameInstance(call.key, k)

C18_Witness ==
    /\ call.op = "AddFromString" /\ call.err = NilError
    /\ call.key = "simple"
    /\ "user" \in Registered
    /\ registry.validators["user"].v = registry.validators["simple"].v
    /\ registry.validators["user"].addr # registry.validators["simple"].addr

\* what the constructor an AddFrom... call delegates to returns for its input
DelegateError ==
    IF call.op = "AddFromString" THEN NewFromString(call.input).err
    ELSE New(call.path).err

\* C19: AddFromString and AddFromFile return the error of the constructor
\* they delegate to, and a call that failed left the registry unchanged:
\* no entry added, the entry already under that key kept.
C19_FailedAddKeepsRegistry ==
    /\ [](call.op \in {"AddFromString", "AddFromFile"} => call.err = DelegateError)
    /\ [][(call'.op \in {"AddFromString", "AddFromFile"} /\ call'.err # NilError) =>
             registry' = registry]_vars

C19_Witness ==
    /\ call.op = "AddFromFile" /\ call.path = "arquivo-inexistente.json"
    /\ call.key = "user"
    /\ call.err # NilError
    /\ "user" \in Registered
    /\ registry.validators["user"].addr # 0
\* C20: the MultiValidator synchronizes nothing: while the program runs, a
\* caller that is not inside an operation can enter any operation of the
\* registry, whatever another caller is doing inside it, so that a writing
\* operation and another operation being inside the map at once (a data
\* race) is reachable.
C20_NoSynchronization ==
    call.op # "fatal" =>
        \A t \in Callers : callers[t].pc = "idle" => ENABLED RegistryEnter(t)

C20_Witness ==
    /\ Racing
    /\ callers[1].op = "Add" /\ callers[2].op = "Remove"
    /\ callers[1].key = callers[2].key

\* the last call returned what o holds
Returned(o) == call.result = o.result /\ call.err = o.err

\* C21: the entry points converge on ValidateBytes.  ValidateString returns
\* what ValidateBytes returns on the bytes of the string; ValidateInterface
\* fails with a serialization error when the value has no JSON encoding and
\* otherwise returns what ValidateBytes returns on the encoding of the value;
\* ValidateRequest on a request whose body is read without failure returns
\* what ValidateBytes returns on the bytes of the body.
C21_EntryPointsConverge ==
    /\ call.op = "ValidateString" =>
          Returned(ValidateBytes(validator, call.input, call.eng))
    /\ call.op = "ValidateInterface" =>
          IF Marshal(call.value).ok
          THEN Returned(ValidateBytes(validator, Marshal(call.value).text, call.eng))
          ELSE /\ call.result.nil
               /\ call.err # NilError
               /\ call.err[1] = "erro ao serializar dados para JSON: "
    /\ (call.op = "ValidateRequest" /\ ~request.in.nil
        /\ ~request.in.Body.nil /\ ~request.in.Body.fails) =>
          Returned(ValidateBytes(validator, request.in.Body.data, call.eng))

C21_Witness ==
    /\ call.op = "ValidateRequest"
    /\ ~request.in.nil /\ ~request.in.Body.nil /\ ~request.in.Body.fails
    /\ request.in.Body.data = DocShortName
    /\ ~call.result.nil /\ Len(Diagnostics) = 1

\* C22: under a MiddlewareConfig with a non-empty SkipMethods list S and an
\* ErrorHandler H, a request whose method is in S reaches the downstream
\* handler without validation, whatever its body; a request whose method is
\* not in S and whose body fails validation is answered by H, not by the
\* default responder, and never reaches the downstream handler.
C22_ConfiguredSkipAndHandler ==
    (call.op = "MiddlewareWithConfig" /\ Len(call.config.SkipMethods) > 0
     /\ call.config.ErrorHandler = "custom") =>
        /\ InList(request.in.Method, call.config.SkipMethods) =>
              /\ response.nextCalls = 1
              /\ ~call.validated /\ call.engine = 0
              /\ ResponderCalls = 0
        /\ (~InList(request.in.Method, call.config.SkipMethods)
            /\ RequestValidation.err = NilError
            /\ ~RequestValidation.result.Valid) =>
              /\ response.customHandlerCalls = 1
              /\ response.defaultHandlerCalls = 0
              /\ response.nextCalls = 0
              /\ response.status = StatusUnprocessableEntity

\* TestMiddlewareWithConfig: POST is skipped with an invalid body
C22_Witness ==
    /\ call.op = "MiddlewareWithConfig"
    /\ call.config = MiddlewareConfig(<<"GET", "POST">>, "custom")
    /\ request.in.Method = "POST"
    /\ request.in.Body.data = DocNotJson /\ ~request.in.Body.fails
    /\ response.nextCalls = 1 /\ response.status = StatusOK

\* the path of a violation without the engine's prefix for the root
Stripped(path) ==
    IF path = <<"(root)">> THEN <<"">>
    ELSE IF path[1] = "(root)" THEN Tail(path)
    ELSE path

\* C23: for an engine result with n violations the ValidationResult carries
\* exactly n diagnostics in the engine's order, the i-th built from the i-th
\* violation: Constraint is the violation's keyword, Field its path without
\* the root prefix, and Value is present only when the violation carries a
\* value (and is then that value).
C23_OneDiagnosticPerViolation ==
    (call.validated /\ call.engine = 1 /\ ~call.eng.err) =>
        /\ ~call.result.nil
        /\ Len(Diagnostics) = Len(call.eng.errors)
        /\ \A i \in 1..Len(Diagnostics) :
              /\ Diagnostics[i].Constraint = call.eng.errors[i].type
              /\ Diagnostics[i].Field = Stripped(call.eng.errors[i].field)
              /\ Diagnostics[i].Value = call.eng.errors[i].value
              /\ Diagnostics[i].Value # NilValue <=>
                    call.eng.errors[i].value # NilValue

\* a violation without a value, then another with its value
C23_Witness ==
    /\ call.op = "ValidateBytes" /\ Len(Diagnostics) = 2
    /\ Diagnostics[1].Constraint = "required"
    /\ Diagnostics[1].Field = <<"">> /\ Diagnostics[1].Value = NilValue
    /\ Diagnostics[2].Constraint = "string_gte"
    /\ Diagnostics[2].Field = <<"name">> /\ Diagnostics[2].Value = "T"

\* the schema text describes an array
DescribesArray(schemaText) ==
    Bind(ParseText(schemaText).v, LAMBDA schema :
      HasKey(schema, "type") /\ schema.m["type"] = JStr("array"))

\* the properties of the items of a schema text that carry an errorMessage
\* object
ItemAnnotated(schemaText) ==
    Bind(ParseText(schemaText).v, LAMBDA schema :
      Bind(ObjAt(ObjAt(schema, "items"), "properties"), LAMBDA props :
        IF IsObj(props)
        THEN {g \in DOMAIN props.m : HasObjAt(props.m[g], "errorMessage")}
        ELSE {}))

\* the messages a schema text declares on the properties of its items:
\* <<P, C, M>> for items.properties.P.errorMessage.C = M
ItemMessages(schemaText) ==
    Bind(ParseText(schemaText).v, LAMBDA schema :
      Bind(ObjAt(ObjAt(schema, "items"), "properties"), LAMBDA props :
        IF ~IsObj(props) THEN {}
        ELSE UNION {
               LET em == ObjAt(props.m[f], "errorMessage") IN
               {<<f, c, em.m[c].s>> : c \in {k \in DOMAIN em.m : em.m[k].t = "str"}}
               : f \in {g \in DOMAIN props.m : HasObjAt(props.m[g], "errorMessage")}}))

\* the indexes of the array elements the engine reports violations on
ElementIndexes == {"0"}

\* C24: with items.properties.P.errorMessage.C = M in a schema that describes
\* an array, every diagnostic of a violation of C on property P of an array
\* element (field "<index>.P") has Message M, not the engine's description.
C24_ArrayItemMessage ==
    (call.validated /\ ~call.result.nil /\ ~validator.nil
     /\ DescribesArray(validator.schema)) =>
        \A t \in ItemMessages(validator.schema) :
            \A i \in 1..Len(Diagnostics) :
                (/\ Len(Diagnostics[i].Field) = 2
                 /\ Diagnostics[i].Field[1] \in ElementIndexes
                 /\ Diagnostics[i].Field[2] = t[1]
                 /\ Diagnostics[i].Constraint = t[2])
                    => Diagnostics[i].Message = <<t[3]>>

\* the message the overlay table holds for constraint c under key, or the
\* default when it holds none: the constraint's own, else the wildcard's
MessageUnder(key, c, default) ==
    IF key \notin DOMAIN validator.customErrors THEN <<default>>
    ELSE IF c \in DOMAIN validator.customErrors[key]
    THEN <<validator.customErrors[key][c]>>
    ELSE IF "_" \in DOMAIN validator.customErrors[key]
    THEN <<validator.customErrors[key]["_"]>>
    ELSE <<default>>

\* C25: the message of a violation on a nested field "a.b" is looked up
\* under the first segment "a" alone (the constraint's message, else the
\* wildcard's, else the engine's description); what the table holds for "b",
\* or for any other key, has no part in it.
C25_FirstSegmentLookup ==
    (call.validated /\ call.engine = 1 /\ ~call.result.nil) =>
        \A i \in 1..Len(Diagnostics) :
            Len(Diagnostics[i].Field) >= 2 =>
                /\ Diagnostics[i].Message =
                       MessageUnder(Diagnostics[i].Field[1], Diagnostics[i].Constraint,
                                    call.eng.errors[i].description)
                /\ Diagnostics[i].Field[1] \notin DOMAIN validator.customErrors =>
                       Diagnostics[i].Message = <<call.eng.errors[i].description>>

\* the table has a pattern message for "address", for "zipCode" and for
\* "address.zipCode": the violation at address.zipCode gets the first
C25_Witness ==
    /\ call.op = "ValidateBytes" /\ Len(Diagnostics) = 1
    /\ Diagnostics[1].Field = <<"address", "zipCode">>
    /\ Diagnostics[1].Constraint = "pattern"
    /\ {"address", "zipCode", "address.zipCode"} \subseteq DOMAIN validator.customErrors
    /\ validator.customErrors["zipCode"]["pattern"] = "bad zip"
    /\ validator.customErrors["address.zipCode"]["pattern"] = "bad path"
    /\ Diagnostics[1].Message = <<"bad address">>

\* the required-field messages a schema text declares at its top level:
\* <<F, M>> for errorMessage.required.F = M
TopLevelRequired(schemaText) ==
    Bind(ParseText(schemaText).v, LAMBDA schema :
      Bind(ObjAt(ObjAt(schema, "errorMessage"), "required"), LAMBDA required :
        IF ~IsObj(required) THEN {}
        ELSE {<<f, required.m[f].s>> :
                f \in {g \in DOMAIN required.m : required.m[g].t = "str"}}))

\* C26: with errorMessage.required.F = M at the top level of the schema, the
\* overlay table of the constructed Validator has an entry for F, made for
\* it when F has no errorMessage of its own, whose "required" message is M.
C26_TopLevelRequiredSeeds ==
    (call.constructed /\ ~validator.nil) =>
        \A t \in TopLevelRequired(validator.schema) :
            /\ t[1] \in DOMAIN validator.customErrors
            /\ "required" \in DOMAIN validator.customErrors[t[1]]
            /\ validator.customErrors[t[1]]["required"] = t[2]

\* the required-field messages a schema text declares for its items:
\* <<F, M>> for items.errorMessage.required.F = M
ItemRequired(schemaText) ==
    Bind(ParseText(schemaText).v, LAMBDA schema :
      Bind(ObjAt(ObjAt(ObjAt(schema, "items"), "errorMessage"), "required"),
           LAMBDA block :
        IF IsObj(block)
        THEN {<<f, block.m[f].s>> : f \in {g \in DOMAIN block.m : block.m[g].t = "str"}}
        ELSE {}))

\* C27 as stated: in the overlay table of every constructed Validator the
\* keys of every per-field entry are non-empty strings, and a field without
\* a usable annotation is absent: every entry holds at least one message.
C27_TableWellFormed ==
    (call.constructed /\ ~validator.nil) =>
        \A f \in DOMAIN validator.customErrors :
            /\ \A k \in DOMAIN validator.customErrors[f] : k # ""
            /\ validator.customErrors[f] # EmptyMap

\* C27 as amended: every key of every per-field entry is a key the schema
\* gives a string message to, in the field's errorMessage object under items
\* (empty when the schema's key is empty) or as "required" in the required
\* block of items; the fields of the table are exactly those with an
\* errorMessage object or a required message, so a field whose errorMessage
\* object holds no string message is present with an empty entry and a field
\* with neither is absent.
C27_TableAmended ==
    (call.constructed /\ ~validator.nil) =>
        \A annotated \in {ItemAnnotated(validator.schema)},
           messages \in {ItemMessages(validator.schema)},
           required \in {ItemRequired(validator.schema)} :
            /\ DOMAIN validator.customErrors = annotated \cup {t[1] : t \in required}
            /\ \A f \in DOMAIN validator.customErrors :
                  \A k \in DOMAIN validator.customErrors[f] :
                      \/ <<f, k, validator.customErrors[f][k]>> \in messages
                      \/ /\ k = "required"
                         /\ <<f, validator.customErrors[f][k]>> \in required

C27_Witness ==
    /\ call.constructed /\ validator.schema = SchemaAnnotations
    /\ "age" \in DOMAIN validator.customErrors
    /\ validator.customErrors["age"] = EmptyMap
    /\ "" \in DOMAIN validator.customErrors["nick"]
    /\ "plain" \notin DOMAIN validator.customErrors

\* the schema text the constructor of the last call was given
SchemaGiven ==
    IF call.op = "New" THEN FileOutcome(call.path).bytes ELSE call.input

\* the constructor of the last call had a schema text to decode
SchemaRead ==
    \/ call.op \in Constructors
    \/ call.op = "New" /\ FileOutcome(call.path).open /\ FileOutcome(call.path).read

\* C28: NewFromBytes, and with it NewFromString and New, returns a Validator
\* and no error when the schema text is a JSON document whose top-level value
\* is an object or null, and an error and no Validator for every other text:
\* one that is no JSON document, and a JSON array, string, number or boolean.
C28_OnlyObjectOrNull ==
    SchemaRead =>
        \A p \in {ParseText(SchemaGiven)} :
            IF p.ok /\ p.v.t \in {"obj", "null"}
            THEN call.constructed /\ ~validator.nil /\ call.err = NilError
            ELSE ~call.constructed /\ validator.nil /\ call.err # NilError

\* a JSON array: a valid JSON document that is rejected
C28_Witness ==
    /\ call.op = "NewFromBytes" /\ call.input = SchemaArray
    /\ ParseText(call.input).ok
    /\ ~call.constructed /\ validator.nil
    /\ call.err # NilError /\ call.err[1] = "schema JSON invalido: "

\* C29: the methods the middleware exempts are those of config.SkipMethods
\* when the list is not empty, in place of the defaults and not beside them,
\* and GET, DELETE, HEAD and OPTIONS when the list is nil or empty, so some
\* method is exempt under every configuration; the request's method is
\* compared by exact, case-sensitive equality.  A request is passed on
\* unvalidated exactly when its method is in that set.
C29_ExemptionSet ==
    call.op \in MiddlewareOps =>
        \A exempt \in {IF call.config.SkipMethods = << >>
                       THEN {"GET", "DELETE", "HEAD", "OPTIONS"}
                       ELSE {call.config.SkipMethods[i] :
                                i \in 1..Len(call.config.SkipMethods)}} :
            /\ exempt # {}
            /\ request.in.Method \in exempt =>
                  (~call.validated /\ response.nextCalls = 1)
            /\ request.in.Method \notin exempt => call.validated
            /\ (request.in.Method = "get" /\ "get" \notin exempt) => call.validated

\* DELETE is a default but not in the configured list: it is validated
C29_Witness ==
    /\ call.op = "MiddlewareWithConfig"
    /\ call.config.SkipMethods = <<"GET", "POST">>
    /\ request.in.Method = "DELETE"
    /\ call.validated /\ response.nextCalls = 0

\* C30: a middleware request with a non-exempt method and a body of length
\* zero is an operational failure: the answer is HTTP 500 and neither the
\* error responder nor the downstream handler is called; a body that is not
\* empty and is no JSON document is answered by the error responder.
C30_EmptyBodyIsFailure ==
    (NonExemptRequest /\ ~request.in.Body.nil /\ ~request.in.Body.fails) =>
        /\ Len(request.in.Body.data) = 0 =>
              /\ response.status = StatusInternalServerError
              /\ response.payload.kind = "text"
              /\ ResponderCalls = 0
              /\ response.nextCalls = 0
        /\ Unparseable(request.in.Body.data) =>
              /\ ResponderCalls = 1
              /\ response.status \in {StatusBadRequest, StatusUnprocessableEntity}
              /\ response.nextCalls = 0

C30_Witness ==
    /\ call.op = "Middleware" /\ request.in.Method = "POST"
    /\ ~request.in.Body.nil /\ ~request.in.Body.fails
    /\ request.in.Body.data = << >>
    /\ response.status = StatusInternalServerError
    /\ call.err # NilError

====
